---- MODULE Spec2Model ----
(***************************************************************************)
(* Dispatch engine of excelFormater-backend: adaptive concurrency          *)
(* controller (lib/services/concurrencyManager.js), worker pool            *)
(* (lib/services/workerPool.js), pool worker thread (lib/workers/          *)
(* apiWorker.js), record pipeline (lib/services/processRecord.js), batch   *)
(* job handler (worker.js, modular version) and the session statistics of  *)
(* the monolithic worker.js.                                               *)
(*                                                                         *)
(* Numbers: times are milliseconds; cpu load is in 1/1000, free-memory     *)
(* ratio in 1/100, the error rate is kept as the number of error           *)
(* timestamps in the window (rate = count / 5), response times are ms,     *)
(* averages of response times are in 1/1000 ms, relative changes in        *)
(* 1/1000 and the system-health score in 1/60000.                          *)
(***************************************************************************)
EXTENDS Integers, Sequences, FiniteSets, TLC

VARIABLES now, cm, workerUpdate, decision, cbLastTripped, ticks, scen, switches,
          pool, promise, payload, shutdownPc, crashLog, crashes,
          job, handled, wk, rec, apistats, tracked, batch, ov, sub, host, lim, trace, store

ctlVars == <<now, cm, workerUpdate, decision, cbLastTripped, ticks, scen, switches>>

poolVars == <<pool, promise, payload, shutdownPc, crashLog, crashes>>

jobVars == <<job, handled>>

batchVars == <<batch>>

wkVars == <<wk>>

statsVars == <<rec, apistats, tracked>>

storeVars == <<store>>

traceVars == <<trace>>

limVars == <<lim>>

hostVars == <<host>>

subVars == <<sub>>

ovVars == <<ov>>

vars == <<now, cm, workerUpdate, decision, cbLastTripped, ticks, scen, switches,
          pool, promise, payload, shutdownPc, crashLog, crashes,
          job, handled, wk, rec, apistats, tracked, batch, ov, sub, host, lim, trace, store>>

\* ---------------------------------------------------------------- constants
MIN_CONCURRENCY == 20
MAX_CONCURRENCY == 50
COOLDOWN_MS == 30000
MAX_DECREASE_STEP == 3
CONCURRENCY_STABILITY_THRESHOLD == 5
CONCURRENCY_INCREASE_RATE == 2
HISTORY_LENGTH == 5
TREND_HISTORY_LENGTH == 3
SYSTEM_HEALTH_HISTORY == 10
CIRCUIT_BREAKER_RESET_TIMEOUT == 60000
MAX_RECOVERY_STEPS == 5
PREDICTION_UPDATE_INTERVAL == 900000
PATTERN_LENGTH == 10
\* Math.max(2, Math.min(cpus().length - 1, 4)) on a host of up to three CPUs
MAX_WORKERS == 2

\* ------------------------------------------------------------------- bounds
MaxTicks == 21
MaxLiveTicks == 30
MaxErrorTicks == 6
MaxSwitches == 2
StartTime == 36000000
MaxTasks == 3
MaxLiveTasks == 2
MaxCrashes == 1

\* ------------------------------------------------------------------ helpers
Min(a, b) == IF a < b THEN a ELSE b
Max(a, b) == IF a > b THEN a ELSE b
Abs(a) == IF a < 0 THEN 0 - a ELSE a

RECURSIVE SumSeq(_)
SumSeq(s) == IF s = <<>> THEN 0 ELSE Head(s) + SumSeq(Tail(s))

\* arr.push(x); if (arr.length > n) arr.shift()
PushShift(arr, x, n) ==
  LET s == Append(arr, x) IN IF Len(s) > n THEN Tail(s) ELSE s

\* ceil(a / b) for b > 0
CeilDiv(a, b) == 0 - ((0 - a) \div b)

detectTrend(arr) ==
  IF Len(arr) < 2 THEN 0
  ELSE LET mostRecent == arr[Len(arr)]
           previous == arr[Len(arr) - 1]
       IN IF 10 * mostRecent > 11 * previous THEN 1
          ELSE IF 10 * mostRecent < 9 * previous THEN -1
          ELSE 0

getHourFromTimestamp(t) == (t \div 3600000) % 24

\* movingAverage(responseTimeHistory) in 1/1000 ms
avgResponseTimeOf(hist) ==
  IF hist = <<>> THEN 0 ELSE (SumSeq(hist) * 1000) \div Len(hist)

\* trend.reduce(...) / trend.length, times 6 (lengths 1..3 divide 6)
trendScore6(trend, sign) == (sign * SumSeq(trend) * 6) \div Len(trend)

\* ---------------------------------------------------- concurrency manager
cmInit ==
  [ currentConcurrency |-> MIN_CONCURRENCY,
    lastConcurrencyChange |-> 0,
    consecutiveDecreaseTriggers |-> 0,
    stabilityCounter |-> 0,
    circuitBreakerTripped |-> FALSE,
    circuitBreakerTripTime |-> 0,
    previousSystemHealth |-> <<>>,
    inRecoveryMode |-> FALSE,
    recoveryStartConcurrency |-> 0,
    recoveryTargetConcurrency |-> 0,
    recoveryStepsTaken |-> 0,
    dailyConcurrencyPatterns |-> [h \in 0..23 |-> <<>>],
    predictedConcurrencyAdjustment |-> 0,
    lastPredictionUpdate |-> 0,
    cpuHistory |-> <<>>,
    memHistory |-> <<>>,
    errorRateHistory |-> <<>>,
    backlogHistory |-> <<>>,
    responseTimeHistory |-> <<>>,
    cpuTrend |-> <<>>,
    errorTrend |-> <<>>,
    backlogTrend |-> <<>>,
    responseTimeChangeTrend |-> <<>>,
    lastAvgResponseTime |-> 0 ]

\* updateConcurrencyPatterns(): s already holds the new health sample
updateConcurrencyPatterns(s, t) ==
  LET hour == getHourFromTimestamp(t)
      psh == s.previousSystemHealth
  IN IF /\ Len(psh) > 0
        /\ SumSeq(psh) > 30000 * Len(psh)
        /\ 2 * s.currentConcurrency > MIN_CONCURRENCY + MAX_CONCURRENCY
     THEN [s EXCEPT !.dailyConcurrencyPatterns[hour] =
                      PushShift(@, s.currentConcurrency, PATTERN_LENGTH)]
     ELSE s

\* Math.round(sum/len - c): round half up
RoundDiff(sum, len, c) == (2 * sum - 2 * c * len + len) \div (2 * len)

clampAdjustment(x) == Min(5, Max(-5, x))

\* calculatePredictiveConcurrency()
calculatePredictiveConcurrency(s, t) ==
  IF t - s.lastPredictionUpdate < PREDICTION_UPDATE_INTERVAL THEN s
  ELSE LET nextHour == (getHourFromTimestamp(t) + 1) % 24
           pat == s.dailyConcurrencyPatterns[nextHour]
       IN IF Len(pat) > 0
          THEN [s EXCEPT !.predictedConcurrencyAdjustment =
                           clampAdjustment(RoundDiff(SumSeq(pat), Len(pat), s.currentConcurrency)),
                         !.lastPredictionUpdate = t]
          ELSE [s EXCEPT !.predictedConcurrencyAdjustment = 0]
\* lines 141-151: breaker reset, start of recovery mode
resetCircuitBreaker(s) ==
  [s EXCEPT !.circuitBreakerTripped = FALSE,
            !.inRecoveryMode = TRUE,
            !.recoveryStartConcurrency = MIN_CONCURRENCY,
            !.recoveryTargetConcurrency = (MIN_CONCURRENCY * 3) \div 2,
            !.recoveryStepsTaken = 0,
            !.currentConcurrency = MIN_CONCURRENCY]

\* lines 160-199: histories, trends, response-time change
\* in.rt = -1: no 'metrics:latestAvgResponseTime' value (or not a number)
gatherMetrics(s, in) ==
  LET rth == IF in.rt >= 0
             THEN PushShift(s.responseTimeHistory, in.rt, HISTORY_LENGTH)
             ELSE s.responseTimeHistory
      cpuH == PushShift(s.cpuHistory, in.cpu, HISTORY_LENGTH)
      memH == PushShift(s.memHistory, in.mem, HISTORY_LENGTH)
      errH == PushShift(s.errorRateHistory, in.err, HISTORY_LENGTH)
      blH == PushShift(s.backlogHistory, in.backlog, HISTORY_LENGTH)
      avgResponseTime == avgResponseTimeOf(rth)
      change == IF s.lastAvgResponseTime > 0
                THEN ((avgResponseTime - s.lastAvgResponseTime) * 1000)
                       \div s.lastAvgResponseTime
                ELSE 0
  IN [s EXCEPT !.responseTimeHistory = rth,
               !.cpuHistory = cpuH,
               !.memHistory = memH,
               !.errorRateHistory = errH,
               !.backlogHistory = blH,
               !.cpuTrend = PushShift(@, detectTrend(cpuH), TREND_HISTORY_LENGTH),
               !.errorTrend = PushShift(@, detectTrend(errH), TREND_HISTORY_LENGTH),
               !.backlogTrend = PushShift(@, detectTrend(blH), TREND_HISTORY_LENGTH),
               !.responseTimeChangeTrend = PushShift(@, change, TREND_HISTORY_LENGTH),
               !.lastAvgResponseTime = avgResponseTime]

\* lines 207-218, in 1/60000
systemHealthOf(s) ==
  3000 * trendScore6(s.cpuTrend, -1)
  + 3000 * trendScore6(s.errorTrend, -1)
  + 2000 * trendScore6(s.backlogTrend, 1)
  + 2 * trendScore6(s.responseTimeChangeTrend, -1)

\* mutant: only the error rate trips the breaker
tripConditionErrorOnly(s, health) ==
  2 * SumSeq(s.errorRateHistory) > 3 * Len(s.errorRateHistory)

\* lines 244-276: breaker trip
tripCondition(s, health) ==
  \/ 2 * SumSeq(s.errorRateHistory) > 3 * Len(s.errorRateHistory)
  \/ health < -42000

tripCircuitBreaker(s, t) ==
  [s EXCEPT !.circuitBreakerTripped = TRUE,
            !.circuitBreakerTripTime = t,
            !.inRecoveryMode = FALSE,
            !.stabilityCounter = 0,
            !.currentConcurrency = MIN_CONCURRENCY]

\* mutant: the first recovery tick goes straight to the target
recoveryNewConcurrencyAtOnce(s) == s.recoveryTargetConcurrency

\* lines 282-315: one recovery tick
recoveryNewConcurrency(s) ==
  LET recoveryStepSize ==
        CeilDiv(s.recoveryTargetConcurrency - s.recoveryStartConcurrency, MAX_RECOVERY_STEPS)
  IN Min(s.recoveryTargetConcurrency,
         s.recoveryStartConcurrency + recoveryStepSize * (s.recoveryStepsTaken + 1))

\* mutant: recovery mode is never left
recoveryStepNoExit(s, t) ==
  LET newConcurrency == recoveryNewConcurrency(s)
      s1 == [s EXCEPT !.recoveryStepsTaken = @ + 1]
  IN IF newConcurrency # s.currentConcurrency
     THEN [st |-> [s1 EXCEPT !.currentConcurrency = newConcurrency,
                             !.lastConcurrencyChange = t],
           ret |-> newConcurrency, log |-> "recovery"]
     ELSE [st |-> s1, ret |-> 0, log |-> "none"]

recoveryStep(s, t) ==
  LET steps == s.recoveryStepsTaken + 1
      newConcurrency == recoveryNewConcurrency(s)
      s1 == [s EXCEPT !.recoveryStepsTaken = steps,
                      !.inRecoveryMode =
                         ~(steps >= MAX_RECOVERY_STEPS
                           \/ newConcurrency >= s.recoveryTargetConcurrency)]
  IN IF newConcurrency # s.currentConcurrency
     THEN [st |-> [s1 EXCEPT !.currentConcurrency = newConcurrency,
                             !.lastConcurrencyChange = t],
           ret |-> newConcurrency, log |-> "recovery"]
     ELSE [st |-> s1, ret |-> 0, log |-> "none"]

\* mutant: the increase branch does not look at the system health
increaseConditionNoHealth(s, health) ==
  /\ SumSeq(s.cpuHistory) < 1500 * Len(s.cpuHistory)
  /\ SumSeq(s.memHistory) > 40 * Len(s.memHistory)
  /\ SumSeq(s.backlogHistory) > 5 * Len(s.backlogHistory)
  /\ 20 * SumSeq(s.errorRateHistory) < 7 * Len(s.errorRateHistory)

\* lines 318, 351: the two branch conditions
increaseCondition(s, health) ==
  /\ health > 18000
  /\ SumSeq(s.cpuHistory) < 1500 * Len(s.cpuHistory)
  /\ SumSeq(s.memHistory) > 40 * Len(s.memHistory)
  /\ SumSeq(s.backlogHistory) > 5 * Len(s.backlogHistory)
  /\ 20 * SumSeq(s.errorRateHistory) < 7 * Len(s.errorRateHistory)

decreaseCondition(s, health) ==
  \/ health < -18000
  \/ SumSeq(s.cpuHistory) > 2000 * Len(s.cpuHistory)
  \/ SumSeq(s.memHistory) < 20 * Len(s.memHistory)
  \/ 2 * SumSeq(s.errorRateHistory) > Len(s.errorRateHistory)
  \/ 2 * avgResponseTimeOf(s.responseTimeHistory) > 3 * s.lastAvgResponseTime

\* mutant: the increase is not capped
increasedConcurrencyNoCap(c, increaseAmount) == c + increaseAmount

\* lines 336, 371, 399-405: the new concurrency of each branch
increasedConcurrency(c, increaseAmount) == Min(MAX_CONCURRENCY, c + increaseAmount)

decreasedConcurrency(c, decreaseStep) == Max(MIN_CONCURRENCY, c - decreaseStep)

predictiveConcurrency(c, adj) == Max(MIN_CONCURRENCY, Min(MAX_CONCURRENCY, c + adj))

\* lines 318-350
increaseStep(s, t) ==
  LET stab == s.stabilityCounter + 1
      avgBacklogOver10 == SumSeq(s.backlogHistory) \div (10 * Len(s.backlogHistory))
      base == IF stab > CONCURRENCY_STABILITY_THRESHOLD
                 /\ SumSeq(s.backlogHistory) > 20 * Len(s.backlogHistory)
              THEN Min(CONCURRENCY_INCREASE_RATE, avgBacklogOver10)
              ELSE 1
      adj == s.predictedConcurrencyAdjustment
      increaseAmount == IF adj > 0 THEN Max(base, adj) ELSE base
      newConcurrency == increasedConcurrency(s.currentConcurrency, increaseAmount)
      s1 == [s EXCEPT !.consecutiveDecreaseTriggers = 0, !.stabilityCounter = stab]
  IN IF newConcurrency > s.currentConcurrency
     THEN [st |-> [s1 EXCEPT !.currentConcurrency = newConcurrency,
                             !.lastConcurrencyChange = t],
           ret |-> newConcurrency, log |-> "increase"]
     ELSE [st |-> s1, ret |-> 0, log |-> "none"]

\* let severityMultiplier = 1; if (systemHealth < -0.6) ... = 2;
\* if (avgError > 0.2) ... = 3
severityMultiplierOf(s, health) ==
  IF SumSeq(s.errorRateHistory) > Len(s.errorRateHistory) THEN 3
  ELSE IF health < -36000 THEN 2 ELSE 1

\* mutant: the capped trigger count is multiplied by the severity
decreaseStepBaseScaled(trig, severityMultiplier) ==
  Min(trig, MAX_DECREASE_STEP) * severityMultiplier

\* Math.min(consecutiveDecreaseTriggers, MAX_DECREASE_STEP * severityMultiplier)
decreaseStepBase(trig, severityMultiplier) ==
  Min(trig, MAX_DECREASE_STEP * severityMultiplier)

\* lines 351-385
decreaseStepOf(s, t, health) ==
  LET trig == s.consecutiveDecreaseTriggers + 1
      severityMultiplier == severityMultiplierOf(s, health)
      step0 == decreaseStepBase(trig, severityMultiplier)
      adj == s.predictedConcurrencyAdjustment
      decreaseStep == IF adj < 0 THEN Max(step0, Abs(adj)) ELSE step0
      newConcurrency == decreasedConcurrency(s.currentConcurrency, decreaseStep)
      s1 == [s EXCEPT !.consecutiveDecreaseTriggers = trig, !.stabilityCounter = 0]
  IN IF newConcurrency < s.currentConcurrency
     THEN [st |-> [s1 EXCEPT !.currentConcurrency = newConcurrency,
                             !.lastConcurrencyChange = t],
           ret |-> newConcurrency, log |-> "decrease"]
     ELSE [st |-> s1, ret |-> 0, log |-> "none"]

\* lines 386-419
stableStep(s, t, health) ==
  LET s1 == [s EXCEPT !.stabilityCounter =
                         IF health > 0
                         THEN Min(@ + 1, CONCURRENCY_STABILITY_THRESHOLD)
                         ELSE Max(0, @ - 1),
                      !.consecutiveDecreaseTriggers = Max(0, @ - 1)]
      adj == s.predictedConcurrencyAdjustment
      newConcurrency == predictiveConcurrency(s.currentConcurrency, adj)
  IN IF /\ Abs(adj) >= 2
        /\ t - s.lastConcurrencyChange > COOLDOWN_MS * 2
        /\ newConcurrency # s.currentConcurrency
     THEN [st |-> [s1 EXCEPT !.currentConcurrency = newConcurrency,
                             !.lastConcurrencyChange = t],
           ret |-> newConcurrency, log |-> "predictive"]
     ELSE [st |-> s1, ret |-> 0, log |-> "none"]

\* lines 160-232: the metrics, the trends, the health sample, the hourly
\* patterns and the predictive adjustment; st = module state, health = systemHealth
gatherAndScore(s, t, in) ==
  LET g == gatherMetrics(s, in)
      health == systemHealthOf(g)
      h1 == [g EXCEPT !.previousSystemHealth = PushShift(@, health, SYSTEM_HEALTH_HISTORY)]
      h2 == updateConcurrencyPatterns(h1, t)
  IN [st |-> calculatePredictiveConcurrency(h2, t), health |-> health]

\* lines 278-419: the cooldown and the four branches
decide(s, t, health) ==
  IF t - s.lastConcurrencyChange < COOLDOWN_MS
  THEN [st |-> s, ret |-> 0, trip |-> FALSE, log |-> "cooldown"]
  ELSE LET r == IF s.inRecoveryMode THEN recoveryStep(s, t)
                ELSE IF increaseCondition(s, health) THEN increaseStep(s, t)
                ELSE IF decreaseCondition(s, health) THEN decreaseStepOf(s, t, health)
                ELSE stableStep(s, t, health)
       IN [st |-> r.st, ret |-> r.ret, trip |-> FALSE, log |-> r.log]

\* monitorAndAdjustConcurrency(): st = new module state, ret = new width or
\* 0 for null, trip = TRUE when the trip record is written to the store,
\* log = which adjustment the tick logged
monitorAndAdjustConcurrency(s, t, in) ==
  IF s.circuitBreakerTripped /\ t - s.circuitBreakerTripTime > CIRCUIT_BREAKER_RESET_TIMEOUT
  THEN [st |-> resetCircuitBreaker(s), ret |-> MIN_CONCURRENCY, trip |-> FALSE, log |-> "reset"]
  ELSE IF s.circuitBreakerTripped
  THEN [st |-> s, ret |-> 0, trip |-> FALSE, log |-> "skip"]
  ELSE
    LET g == gatherAndScore(s, t, in)
    IN IF tripCondition(g.st, g.health)
       THEN [st |-> tripCircuitBreaker(g.st, t), ret |-> MIN_CONCURRENCY, trip |-> TRUE, log |-> "trip"]
       ELSE decide(g.st, t, g.health)

\* ------------------------------------------------- controller environment
\* What os.loadavg, os.freemem, the queue and the metrics report at a tick is
\* chosen by the environment as a move from the previous sample.
LastOf(hist, first) == IF hist = <<>> THEN first ELSE hist[Len(hist)]

Scenarios == {"good", "jump", "bad", "errors"}

\* the same sample at every tick: load 0.5, 60% of the memory free, a backlog
\* of 50, no new response time, and an error rate that stays below every
\* threshold of the controller (no error in the window)
steadyMetrics == [cpu |-> 500, mem |-> 60, backlog |-> 50, err |-> 0, rt |-> -1]

\* samples that trip the breaker, let its timeout pass and then improve
RecoveryScenarios == {"errors", "jump", "good"}

\* samples that trip the breaker through the error rate or through the health
BreakerScenarios == {"good", "bad", "errors"}

\* improving samples that raise the concurrency, worsening ones that lower
\* it, and an error rate that climbs to 0.4 under an unchanged load
DecreaseScenarios == {"good", "bad", "faulty"}

\* improving samples, and answers that get four times slower under an
\* unchanged load without errors
SlowScenarios == {"good", "slow"}

\* improving samples followed or preceded by the steady one
SteadyScenarios == {"good", "steady"}

tickInterval(sc) ==
  CASE sc = "bad" -> COOLDOWN_MS \div 2
    [] sc = "jump" -> 23 * 3600000
    [] OTHER -> COOLDOWN_MS

metricsOf(sc, s) ==
  LET cpu == LastOf(s.cpuHistory, 1400)
      backlog == LastOf(s.backlogHistory, 10)
      err == LastOf(s.errorRateHistory, 0)
      rt == LastOf(s.responseTimeHistory, 800)
  IN CASE sc = "good" ->
            [cpu |-> (cpu * 85) \div 100, mem |-> 50,
             backlog |-> (backlog * 12) \div 10 + 1, err |-> 0,
             rt |-> Max(50, rt \div 2)]
       [] sc = "jump" ->
            [cpu |-> cpu, mem |-> 50, backlog |-> backlog, err |-> 0, rt |-> -1]
       [] sc = "bad" ->
            [cpu |-> Min(8000, cpu * 2), mem |-> 10, backlog |-> backlog \div 2,
             err |-> Min(3, err + 1), rt |-> Min(800, rt * 4)]
       [] sc = "steady" -> steadyMetrics
       [] sc = "slow" ->
            [cpu |-> cpu, mem |-> 50, backlog |-> backlog, err |-> 0,
             rt |-> Min(3200, rt * 4)]
       [] sc = "faulty" ->
            [cpu |-> cpu, mem |-> 50, backlog |-> backlog, err |-> Min(2, err + 1),
             rt |-> -1]
       [] OTHER ->
            [cpu |-> cpu, mem |-> 50, backlog |-> backlog, err |-> 8, rt |-> -1]

\* one firing of the autoscale timer: the whole of monitorAndAdjustConcurrency
TickApply(sc) ==
  /\ LET t == now + tickInterval(sc)
         r == monitorAndAdjustConcurrency(cm, t, metricsOf(sc, cm))
     IN /\ now' = t
        /\ cm' = r.st
        /\ workerUpdate' = r.ret
        /\ decision' = r.log
        /\ cbLastTripped' = IF r.trip THEN t ELSE cbLastTripped
  /\ ticks' = ticks + 1
  /\ scen' = sc
  /\ switches' = switches + (IF scen \notin {"none", sc} THEN 1 ELSE 0)

TickBody(sc) ==
  /\ ticks < MaxTicks
  /\ switches + (IF scen \notin {"none", sc} THEN 1 ELSE 0) <= MaxSwitches
  /\ TickApply(sc)

\* the timer goes on firing: the samples are bad only during the first
\* MaxErrorTicks ticks
LiveTick(sc) ==
  /\ ticks < MaxLiveTicks
  /\ sc = "errors" => ticks < MaxErrorTicks
  /\ TickApply(sc)
  /\ UNCHANGED <<poolVars, jobVars, wkVars, statsVars, batchVars, ovVars, subVars, hostVars, limVars, traceVars, storeVars>>

Tick(sc) ==
  /\ TickBody(sc)
  /\ UNCHANGED <<poolVars, jobVars, wkVars, statsVars, batchVars, ovVars, subVars, hostVars, limVars, traceVars, storeVars>>

InitCtl ==
  /\ now = StartTime
  /\ cm = cmInit
  /\ workerUpdate = 0
  /\ decision = "none"
  /\ cbLastTripped = 0
  /\ ticks = 0
  /\ scen = "none"
  /\ switches = 0

\* ------------------------------------------------------------ worker pool
\* pool: the fields of the WorkerPool object.  pool.workers[i] is the worker
\* thread at index i: out = messages it has posted and the pool has not yet
\* handled (a new thread posts 'init' and then 'ready'), tasks = the job ids
\* posted to it and not yet answered, alive = not terminated.
\* promise[j]: the promise executeTask returned for job id j.
\* payload[j]: whether the task message can be cloned by postMessage.
\* crashLog: history of the tasks that were on a worker when it crashed, each
\* with the job id counter at that moment.
TaskIds == 1..MaxTasks

newWorker == [out |-> <<"init", "ready">>, tasks |-> {}, alive |-> TRUE]

poolInit ==
  [ size |-> MAX_WORKERS,
    workers |-> <<>>,
    queue |-> <<>>,
    workersAvailable |-> <<>>,
    initialized |-> FALSE,
    currentJobId |-> 0,
    jobs |-> {} ]

InSeq(x, seq) == \E k \in 1..Len(seq) : seq[k] = x

\* initialize(): size workers, every index available once
initialize(p) ==
  IF p.initialized THEN p
  ELSE [p EXCEPT !.workers = @ \o [k \in 1..p.size |-> newWorker],
                 !.workersAvailable = @ \o [k \in 1..p.size |-> Len(p.workers) + k],
                 !.initialized = TRUE]

\* postMessage throws when the message cannot be cloned or the index holds no worker
postMessageThrows(st, workerIndex, jobId) ==
  \/ workerIndex \notin 1..Len(st.p.workers)
  \/ st.pl[jobId] = "function"

\* processQueue(): st = [p |-> pool, pr |-> promise, pl |-> payload]
RECURSIVE processQueue(_)
processQueue(st) ==
  IF st.p.queue = <<>> \/ st.p.workersAvailable = <<>> THEN st
  ELSE LET workerIndex == Head(st.p.workersAvailable)
           jobId == Head(st.p.queue)
           p1 == [st.p EXCEPT !.workersAvailable = Tail(@), !.queue = Tail(@)]
       IN IF postMessageThrows(st, workerIndex, jobId)
          THEN processQueue(
                 [p |-> [p1 EXCEPT !.jobs = @ \ {jobId},
                                   !.workersAvailable = Append(@, workerIndex)],
                  pr |-> IF jobId \in p1.jobs
                         THEN [st.pr EXCEPT ![jobId] = "send-failed"]
                         ELSE st.pr,
                  pl |-> st.pl])
          ELSE [p |-> [p1 EXCEPT !.workers[workerIndex].tasks =
                                    IF p1.workers[workerIndex].alive
                                    THEN @ \cup {jobId} ELSE @],
                pr |-> st.pr,
                pl |-> st.pl]

\* mutant: the 'error' branch forgets to reject
handleWorkerMessageNoReject(st, workerIndex, jobId, type) ==
  IF jobId \notin st.p.jobs
  THEN processQueue([st EXCEPT !.p.workersAvailable = Append(@, workerIndex)])
  ELSE processQueue(
         [p |-> [st.p EXCEPT !.jobs = @ \ {jobId},
                            !.workersAvailable = Append(@, workerIndex)],
          pr |-> [st.pr EXCEPT ![jobId] = IF type = "success" THEN "resolved" ELSE @],
          pl |-> st.pl])

\* handleWorkerMessage(worker, message); jobId = 0 stands for a message
\* without a job id (the 'ready' message)
handleWorkerMessage(st, workerIndex, jobId, type) ==
  IF jobId \notin st.p.jobs
  THEN processQueue([st EXCEPT !.p.workersAvailable = Append(@, workerIndex)])
  ELSE processQueue(
         [p |-> [st.p EXCEPT !.jobs = @ \ {jobId},
                             !.workersAvailable = Append(@, workerIndex)],
          pr |-> [st.pr EXCEPT ![jobId] =
                    IF type = "success" THEN "resolved"
                    ELSE IF type = "error" THEN "error"
                    ELSE @],
          pl |-> st.pl])

\* mutant: the failed worker is terminated and no new one is started
replaceWorkerNoNew(p, index) ==
  [p EXCEPT !.workers[index] = [out |-> <<>>, tasks |-> {}, alive |-> FALSE]]

\* replaceWorker(failedWorker)
replaceWorker(p, index) ==
  [p EXCEPT !.workers[index] = newWorker,
            !.workersAvailable =
               IF InSeq(index, @) THEN @ ELSE Append(@, index)]

\* the task timer of executeTask
timeoutTask(st, jobId) ==
  IF jobId \in st.p.jobs
  THEN [p |-> [st.p EXCEPT !.jobs = @ \ {jobId}],
        pr |-> [st.pr EXCEPT ![jobId] = "timeout"],
        pl |-> st.pl]
  ELSE st

\* startWorker / server start-up: workerPool.initialize()
PoolInitialize ==
  /\ shutdownPc = "running"
  /\ ~pool.initialized
  /\ pool' = initialize(pool)
  /\ UNCHANGED <<promise, payload, shutdownPc, crashLog, crashes>>
  /\ UNCHANGED <<ctlVars, jobVars, wkVars, statsVars, batchVars, ovVars, subVars, hostVars, limVars, traceVars, storeVars>>

\* executeTask(taskType, payload, metadata) on st = [p, pr, pl]: the next job
\* id, the stored job, the queue entry, processQueue()
executeTask(st, kind) ==
  LET p0 == initialize(st.p)
      jobId == p0.currentJobId + 1
      p1 == [p0 EXCEPT !.currentJobId = jobId,
                       !.jobs = @ \cup {jobId},
                       !.queue = Append(@, jobId)]
  IN processQueue([p |-> p1, pr |-> [st.pr EXCEPT ![jobId] = "pending"],
                   pl |-> [st.pl EXCEPT ![jobId] = kind]])

\* a caller submits one task: makeApiCall or processRecord of the pool
ExecuteTask(kind) ==
  /\ shutdownPc = "running"
  /\ pool.currentJobId < MaxTasks
  /\ LET st == executeTask([p |-> pool, pr |-> promise, pl |-> payload], kind)
     IN pool' = st.p /\ promise' = st.pr /\ payload' = st.pl
  /\ UNCHANGED <<shutdownPc, crashLog, crashes>>
  /\ UNCHANGED <<ctlVars, jobVars, wkVars, statsVars, batchVars, ovVars, subVars, hostVars, limVars, traceVars, storeVars>>

\* worker.on('message') for the start-up messages of a worker thread
WorkerStartupMessage(i) ==
  /\ i \in 1..Len(pool.workers)
  /\ pool.workers[i].alive
  /\ pool.workers[i].out # <<>>
  /\ LET msg == Head(pool.workers[i].out)
         p1 == [pool EXCEPT !.workers[i].out = Tail(@)]
         st == IF msg = "init" THEN [p |-> p1, pr |-> promise, pl |-> payload]
               ELSE handleWorkerMessage([p |-> p1, pr |-> promise, pl |-> payload], i, 0, msg)
     IN pool' = st.p /\ promise' = st.pr
  /\ UNCHANGED <<payload, shutdownPc, crashLog, crashes>>
  /\ UNCHANGED <<ctlVars, jobVars, wkVars, statsVars, batchVars, ovVars, subVars, hostVars, limVars, traceVars, storeVars>>

\* the worker thread answers one of its tasks: worker.on('message')
WorkerReply(i, jobId, type) ==
  /\ i \in 1..Len(pool.workers)
  /\ pool.workers[i].alive
  /\ pool.workers[i].out = <<>>
  /\ jobId \in pool.workers[i].tasks
  /\ LET p1 == [pool EXCEPT !.workers[i].tasks = @ \ {jobId}]
         st == handleWorkerMessage([p |-> p1, pr |-> promise, pl |-> payload], i, jobId, type)
     IN pool' = st.p /\ promise' = st.pr
  /\ UNCHANGED <<payload, shutdownPc, crashLog, crashes>>
  /\ UNCHANGED <<ctlVars, jobVars, wkVars, statsVars, batchVars, ovVars, subVars, hostVars, limVars, traceVars, storeVars>>

\* the worker thread dies: worker.on('error') -> replaceWorker
WorkerError(i) ==
  /\ crashes < MaxCrashes
  /\ i \in 1..Len(pool.workers)
  /\ pool.workers[i].alive
  /\ pool' = replaceWorker(pool, i)
  /\ crashLog' = crashLog \cup {[task |-> j, jobId |-> pool.currentJobId] :
                                   j \in pool.workers[i].tasks}
  /\ crashes' = crashes + 1
  /\ UNCHANGED <<promise, payload, shutdownPc>>
  /\ UNCHANGED <<ctlVars, jobVars, wkVars, statsVars, batchVars, ovVars, subVars, hostVars, limVars, traceVars, storeVars>>

\* the TASK_TIMEOUT timer of a job fires
TaskTimeout(jobId) ==
  /\ jobId \in pool.jobs
  /\ LET st == timeoutTask([p |-> pool, pr |-> promise, pl |-> payload], jobId)
     IN pool' = st.p /\ promise' = st.pr
  /\ UNCHANGED <<payload, shutdownPc, crashLog, crashes>>
  /\ UNCHANGED <<ctlVars, jobVars, wkVars, statsVars, batchVars, ovVars, subVars, hostVars, limVars, traceVars, storeVars>>

\* the category carried by the errors the pool creates itself, for a task
\* that could not be posted, that timed out or that was cancelled by shutdown:
\* each is a new Error(message), an object without a category property
poolErrorCategory(outcome) == "none"

\* mutant: shutdown() rejects only the jobs that are still queued
shutdownRejectsQueued(p, pr) ==
  [j \in TaskIds |-> IF j \in p.jobs /\ InSeq(j, p.queue) THEN "shutdown" ELSE pr[j]]

\* for (const [jobId, { reject }] of this.jobs.entries())
\*   reject(new Error('Worker pool shutting down'))
shutdownRejects(p, pr) ==
  [j \in TaskIds |-> IF j \in p.jobs THEN "shutdown" ELSE pr[j]]

\* The SIGTERM handler closes the queue worker (no job handler is left to
\* submit tasks), calls shutdown() and exits the process.
\* shutdown() up to its await: reject every stored job, clear, terminate
ShutdownBegin ==
  /\ shutdownPc = "running"
  /\ promise' = shutdownRejects(pool, promise)
  /\ pool' = [pool EXCEPT !.jobs = {},
                          !.queue = <<>>,
                          !.workersAvailable = <<>>,
                          !.workers = [k \in 1..Len(@) |->
                                         [out |-> <<>>, tasks |-> {}, alive |-> FALSE]]]
  /\ shutdownPc' = "terminating"
  /\ UNCHANGED <<payload, crashLog, crashes>>
  /\ UNCHANGED <<ctlVars, jobVars, wkVars, statsVars, batchVars, ovVars, subVars, hostVars, limVars, traceVars, storeVars>>

\* shutdown() after the workers have terminated, then process.exit
ShutdownEnd ==
  /\ shutdownPc = "terminating"
  /\ pool' = [pool EXCEPT !.workers = <<>>, !.initialized = FALSE]
  /\ shutdownPc' = "exited"
  /\ UNCHANGED <<promise, payload, crashLog, crashes>>
  /\ UNCHANGED <<ctlVars, jobVars, wkVars, statsVars, batchVars, ovVars, subVars, hostVars, limVars, traceVars, storeVars>>

InitPool ==
  /\ pool = poolInit
  /\ promise = [j \in TaskIds |-> "none"]
  /\ payload = [j \in TaskIds |-> "none"]
  /\ shutdownPc = "running"
  /\ crashLog = {}
  /\ crashes = 0

NextPool ==
  \/ PoolInitialize
  \/ \E kind \in {"clonable", "function"} : ExecuteTask(kind)
  \/ \E i \in 1..MAX_WORKERS : WorkerStartupMessage(i)
  \/ \E i \in 1..MAX_WORKERS, j \in TaskIds, type \in {"success", "error"} : WorkerReply(i, j, type)
  \/ \E i \in 1..MAX_WORKERS : WorkerError(i)
  \/ \E j \in TaskIds : TaskTimeout(j)
  \/ ShutdownBegin
  \/ ShutdownEnd

\* ------------------------------------------------------------ record pipeline
\* job: the batch job handler of the worker process.  pc is its position,
\* n = records.length, i the loop index, runs the jobs handled so far.
\* handled: history of the records the record pipeline dealt with in this job:
\* the entry path, whether the stored breaker record was inside its reset
\* timeout, whether the record was submitted to the pool, and the result.
BATCH_SIZE == 10
resetTimeout == 60000
MaxRecords == 3
MaxJobs == 1
MaxJobClock == 3

\* the options both entry paths hand to the pool: retryConfig carries a function
pipelineOptions ==
  [retryConfig |-> [maxRetries |-> 3, getBackoffDelay |-> "function"]]

\* worker.postMessage clones its argument; a function cannot be cloned
clonable(options) == options.retryConfig.getBackoffDelay # "function"

\* how a task submitted with these options can settle: a message that cannot
\* be cloned is rejected by processQueue, any other reaches a worker
TaskResults(options) ==
  IF clonable(options) THEN {"success", "userAction", "error", "timeout"}
  ELSE {"send-failed"}

\* isCircuitBreakerActive: a failed read of the record counts as not active
isCircuitBreakerActive(t, lastTripped, redisOk) ==
  redisOk /\ lastTripped # 0 /\ t - lastTripped < resetTimeout

\* job.data.records as the queue hands it over: any JSON value.  A list is a
\* sequence of entries, each an object that has or lacks a truthy memberId and
\* requestId, or null; notAList stands for every value that is not an array
notAList == [isArray |-> FALSE, items |-> <<>>]

validEntry == [isObject |-> TRUE, memberId |-> TRUE, requestId |-> TRUE]

nullEntry == [isObject |-> FALSE, memberId |-> FALSE, requestId |-> FALSE]

RecordEntries ==
  {validEntry, nullEntry,
   [isObject |-> TRUE, memberId |-> FALSE, requestId |-> TRUE],
   [isObject |-> TRUE, memberId |-> TRUE, requestId |-> FALSE]}

RECURSIVE EntryLists(_)
EntryLists(n) ==
  IF n = 0 THEN {<<>>}
  ELSE EntryLists(n - 1)
       \cup {Append(l, e) : l \in {q \in EntryLists(n - 1) : Len(q) = n - 1},
                             e \in RecordEntries}

noError == [message |-> "none", indices |-> {}]

\* mutant: only memberId is required
recordIssuesMemberOnly(record) ==
  IF ~record.memberId THEN {"Missing memberId"} ELSE {}

\* the issues validateJobData collects for one record
recordIssues(record) ==
  (IF ~record.memberId THEN {"Missing memberId"} ELSE {})
  \cup (IF ~record.requestId THEN {"Missing requestId"} ELSE {})

\* validateJobData(records): the error it throws, noError when it returns;
\* indices are those of validationResults.details, counted from 0.  Reading a
\* property of a null entry throws a TypeError out of the forEach
validateJobData(records) ==
  IF ~records.isArray \/ Len(records.items) = 0
  THEN [message |-> "Invalid or empty records array", indices |-> {}]
  ELSE IF \E k \in 1..Len(records.items) : ~records.items[k].isObject
  THEN [message |-> "TypeError", indices |-> {}]
  ELSE LET details == {k \in 1..Len(records.items) :
                         recordIssues(records.items[k]) # {}}
       IN IF details # {}
          THEN [message |-> "Job data validation failed",
                indices |-> {k - 1 : k \in details}]
          ELSE noError

\* the error of the handler's preconditions: validateJobData, then the
\* session config read from redis.get(sessionId)
preconditionError(records, hasConfig) ==
  IF validateJobData(records) # noError THEN validateJobData(records)
  ELSE IF ~hasConfig THEN [message |-> "No config found", indices |-> {}]
  ELSE noError

\* cause tells what made the handler throw: a job-level precondition, a
\* progress or metrics write, or an error of a record leaving the loop;
\* input = job.data.records and whether the session config exists, error =
\* what a precondition threw
jobInit ==
  [pc |-> "idle", n |-> 0, i |-> 0, successCount |-> 0, failureCount |-> 0,
   runs |-> 0, cause |-> "none",
   input |-> [records |-> notAList, hasConfig |-> FALSE], error |-> noError]

\* mutant: the fallback loop lets the error of a failed record through
recordThrowEscapesOnFailure(result) == result # "success"

\* try { await processRecord(...); successCount++ } catch (err) { failureCount++ }:
\* whatever processRecord throws is caught and counted
recordThrowEscapes(result) == FALSE

\* mutant: batchProcessRecords returns the array of results
batchProcessRecordsArray(batchResults) ==
  [isArray |-> TRUE, results |-> batchResults]

\* batchProcessRecords returns the object {results, summary}
batchProcessRecords(batchResults) ==
  [isArray |-> FALSE, results |-> batchResults]

\* the handler up to the batch loop: validateJobData, the session config,
\* workerPool.initialize()
JobStart(records, hasConfig) ==
  /\ job.pc \in {"idle", "completed", "failed"}
  /\ job.runs < MaxJobs
  /\ LET error == preconditionError(records, hasConfig)
         ok == error = noError
     IN /\ job' = [pc |-> IF ok THEN "batch" ELSE "failed",
                   n |-> Len(records.items), i |-> 0,
                   successCount |-> 0, failureCount |-> 0, runs |-> job.runs + 1,
                   cause |-> IF ok THEN "none" ELSE "precondition",
                   input |-> [records |-> records, hasConfig |-> hasConfig],
                   error |-> error]
        /\ pool' = IF ok THEN initialize(pool) ELSE pool
  /\ handled' = {}
  /\ UNCHANGED <<promise, payload, shutdownPc, crashLog, crashes>>
  /\ UNCHANGED <<ctlVars, wkVars, statsVars, batchVars, ovVars, subVars, hostVars, limVars, traceVars, storeVars>>

\* mutant: the loop hands every remaining record to the pool at once
batchRecordsUnsliced(i, n) == (i + 1)..n

\* records.slice(i, i + BATCH_SIZE), as positions counted from 1
batchRecordsOf(i, n) == (i + 1)..Min(i + BATCH_SIZE, n)

\* one iteration of the batch loop: batchProcessRecords on the sub-batch, then
\* batchResults.filter, the counts and the progress updates; any throw enters
\* the catch block, which restarts from the first record
BatchProcess ==
  /\ job.pc = "batch"
  /\ LET batchRecords == batchRecordsOf(job.i, job.n)
         active == isCircuitBreakerActive(now, cbLastTripped, TRUE)
     IN \E results \in [batchRecords -> TaskResults(pipelineOptions)], ioOk \in BOOLEAN :
          LET batchResults == batchProcessRecords(results)
              batchSuccessCount ==
                Cardinality({r \in batchRecords : results[r] = "success"})
              counted ==
                [job EXCEPT !.successCount = @ + batchSuccessCount,
                            !.failureCount = @ + Cardinality(batchRecords) - batchSuccessCount,
                            !.i = @ + BATCH_SIZE]
          IN /\ handled' = handled \cup
                  {[path |-> "batch", breakerActive |-> active, submitted |-> TRUE,
                    result |-> results[r]] : r \in batchRecords}
             /\ job' = IF ~batchResults.isArray
                       THEN [job EXCEPT !.pc = "fallback", !.i = 0]
                       ELSE IF ~ioOk
                       THEN [counted EXCEPT !.pc = "fallback", !.i = 0]
                       ELSE [counted EXCEPT !.pc = IF counted.i >= job.n
                                                   THEN "finishing" ELSE "batch"]
  /\ UNCHANGED <<ctlVars, poolVars, wkVars, statsVars, batchVars, ovVars, subVars, hostVars, limVars, traceVars, storeVars>>

\* mutant: the fallback loop never leaves
fallbackNextPcStuck(i, n) == "fallback"

\* for (let i = 0; i < records.length; i++): after the last record the
\* handler goes on to the job metrics
fallbackNextPc(i, n) == IF i = n THEN "finishing" ELSE "fallback"

\* one iteration of the fallback loop: processRecord of the record service
\* (breaker gate, pool task, storing the response), the count, the progress
\* updates of every fifth and of the last record
FallbackRecord ==
  /\ job.pc = "fallback"
  /\ job.i < job.n
  /\ \E redisOk \in BOOLEAN, res \in TaskResults(pipelineOptions),
        storeOk \in BOOLEAN, ioOk \in BOOLEAN :
       LET stored == isCircuitBreakerActive(now, cbLastTripped, TRUE)
           gate == isCircuitBreakerActive(now, cbLastTripped, redisOk)
           result == IF gate THEN "circuit-breaker" ELSE res
           succeeded == result = "success" /\ storeOk
           progress == job.i % 5 = 0 \/ job.i = job.n - 1
           counted ==
             [job EXCEPT !.successCount = IF succeeded THEN @ + 1 ELSE @,
                         !.failureCount = IF succeeded THEN @ ELSE @ + 1,
                         !.i = @ + 1]
       IN /\ handled' = handled \cup
               {[path |-> "single", breakerActive |-> stored, submitted |-> ~gate,
                 result |-> result]}
          /\ job' = IF recordThrowEscapes(result)
                    THEN [job EXCEPT !.pc = "failed", !.cause = "record"]
                    ELSE IF progress /\ ~ioOk
                    THEN [counted EXCEPT !.pc = "failed", !.cause = "io"]
                    ELSE [counted EXCEPT !.pc = fallbackNextPc(counted.i, job.n)]
  /\ UNCHANGED <<ctlVars, poolVars, wkVars, statsVars, batchVars, ovVars, subVars, hostVars, limVars, traceVars, storeVars>>

\* the job metrics, the COMPLETE and JOB_COMPLETED logs, the return
JobFinish ==
  /\ job.pc = "finishing"
  /\ \E ioOk \in BOOLEAN :
       job' = [job EXCEPT !.pc = IF ioOk THEN "completed" ELSE "failed",
                          !.cause = IF ioOk THEN "none" ELSE "io"]
  /\ UNCHANGED handled
  /\ UNCHANGED <<ctlVars, poolVars, wkVars, statsVars, batchVars, ovVars, subVars, hostVars, limVars, traceVars, storeVars>>

\* the auto-scale interval records a trip in metrics:circuitBreaker
TripBreaker ==
  /\ cbLastTripped # now
  /\ cbLastTripped' = now
  /\ UNCHANGED <<now, cm, workerUpdate, decision, ticks, scen, switches>>
  /\ UNCHANGED <<poolVars, jobVars, wkVars, statsVars, batchVars, ovVars, subVars, hostVars, limVars, traceVars, storeVars>>

\* wall-clock time passes while the handler awaits
JobClockTick ==
  /\ now < StartTime + MaxJobClock * COOLDOWN_MS
  /\ now' = now + COOLDOWN_MS
  /\ UNCHANGED <<cm, workerUpdate, decision, cbLastTripped, ticks, scen, switches>>
  /\ UNCHANGED <<poolVars, jobVars, wkVars, statsVars, batchVars, ovVars, subVars, hostVars, limVars, traceVars, storeVars>>

JobInputs ==
  {notAList} \cup {[isArray |-> TRUE, items |-> l] : l \in EntryLists(MaxRecords)}

\* the lists whose entries are all alike: all valid, or all without memberId
UniformJobInputs ==
  {notAList}
  \cup {[isArray |-> TRUE, items |-> [k \in 1..n |-> e]] :
          n \in 0..MaxRecords, e \in {validEntry, [validEntry EXCEPT !.memberId = FALSE]}}

InitJob ==
  /\ job = jobInit
  /\ handled = {}

NextJob ==
  \/ \E records \in UniformJobInputs, hasConfig \in BOOLEAN : JobStart(records, hasConfig)
  \/ BatchProcess
  \/ FallbackRecord
  \/ JobFinish
  \/ TripBreaker
  \/ JobClockTick

\* the handler on every kind of job data, the stored breaker record never
\* written
NextValidate ==
  \/ \E records \in JobInputs, hasConfig \in BOOLEAN : JobStart(records, hasConfig)
  \/ BatchProcess
  \/ FallbackRecord
  \/ JobFinish

\* ------------------------------------------------------------------ apiWorker
\* wk: the worker thread handling one process_record message at a time.
\* posts = HTTP POSTs issued for the message, last = the latest answer with
\* the time it arrived and whether attempts remained, startedAt = the time the
\* current attempt started, reply = the message posted back to the pool.
defaultMaxRetries == 3
MaxWorkerTasks == 2
MaxWorkerClock == 7

ERROR_CATEGORIES ==
  {"REQUIRES_USER_ACTION", "TEMPORARY_FAILURE", "SYSTEM_ERROR", "NETWORK_ERROR",
   "AUTH_ERROR", "UNKNOWN_ERROR"}

USER_ACTION_STATUS_CODES == {400, 403, 404, 409, 422}

AUTH_ERROR_CODES == {401, 403}

\* the answers of one POST: status 0 is an error without a response
Responses ==
  {[status |-> s, code |-> "", retryAfter |-> -1] : s \in {200, 422, 500}}
  \cup {[status |-> 429, code |-> "", retryAfter |-> k] : k \in {-1, 0, 2}}
  \cup {[status |-> 0, code |-> c, retryAfter |-> -1] :
          c \in {"ECONNABORTED", "ECONNREFUSED", "OTHER"}}

\* validateStatus: status => status < 500
validateStatus(status) == status < 500

\* Math.pow(2, attempt) * 1000
getBackoffDelay(attempt) == (2 ^ attempt) * 1000

categorizeError(resp) ==
  LET category ==
        IF resp.status # 0
        THEN IF resp.status \in USER_ACTION_STATUS_CODES THEN "REQUIRES_USER_ACTION"
             ELSE IF resp.status \in AUTH_ERROR_CODES THEN "AUTH_ERROR"
             ELSE IF resp.status = 429 THEN "TEMPORARY_FAILURE"
             ELSE IF resp.status >= 500 THEN "SYSTEM_ERROR"
             ELSE "UNKNOWN_ERROR"
        ELSE IF resp.code \in {"ECONNABORTED", "ECONNREFUSED"} THEN "NETWORK_ERROR"
        ELSE "UNKNOWN_ERROR"
  IN [category |-> category, statusCode |-> resp.status,
      canRetry |-> category \in {"TEMPORARY_FAILURE", "NETWORK_ERROR"}]

\* throw {...categorizedError, attempts, success: false}: attempts is not
\* declared, so evaluating the object throws a ReferenceError, which the message
\* handler serialises with JSON.stringify to "{}"
thrownReply(categorizedError) ==
  [type |-> "error", category |-> "none", statusCode |-> 0, attempts |-> 0]

successReply(resp, attempt) ==
  [type |-> "success", category |-> "none", statusCode |-> resp.status,
   attempts |-> attempt + 1]

noReply == [type |-> "none", category |-> "none", statusCode |-> 0, attempts |-> 0]

\* last: the answer to the latest POST; category is the one categorizeError
\* gave it in the catch block, "none" for an answer that resolved
noAnswer ==
  [status |-> -1, retryAfter |-> -1, at |-> 0, remaining |-> FALSE,
   category |-> "none"]

\* mutant: every failed attempt but the last is retried
shouldRetryAnyError(isLastAttempt, categorizedError) == ~isLastAttempt

\* let shouldRetry = !isLastAttempt && categorizedError.canRetry
shouldRetry(isLastAttempt, categorizedError) ==
  ~isLastAttempt /\ categorizedError.canRetry

\* what the record service makes of a reply: the promise resolves or rejects,
\* then processRecord stores a response or a user-action error
serviceOutcome(reply) ==
  IF reply.type = "success" THEN "success"
  ELSE IF reply.category = "REQUIRES_USER_ACTION" THEN "userAction"
  ELSE "failure"

\* the Redis keys the record service writes once the task has settled:
\* storeSuccessfulApiResponse for a resolved task, storeUserActionError for an
\* error of category REQUIRES_USER_ACTION, nothing for any other error
serviceStores(reply) ==
  IF serviceOutcome(reply) = "success" THEN {"successResponse", "successResponses"}
  ELSE IF serviceOutcome(reply) = "userAction" THEN {"userActionError", "userActionErrors"}
  ELSE {}

\* what the catch block of the record service adds to
\* metrics:recordErrors['<url>:<code>'] for a rejected task: statusCode is
\* err.statusCode || 0 of the error the pool handed over
recordErrorsIncrement(reply) ==
  IF reply.statusCode = 429 \/ reply.statusCode >= 500 THEN 1 ELSE 0

\* the request traces (apidata:<sessionId>:<reqId>, indexed in
\* apirequests:<sessionId>) written for a task: the worker thread writes
\* nothing to Redis, so they are those of the record service
tracesWritten(reply) ==
  IF {"apidata", "apirequests"} \subseteq serviceStores(reply) THEN 1 ELSE 0

\* posts counts the api.post calls of the retry loop; scheduled counts those
\* of them issued inside limiter.schedule. The worker thread imports only
\* worker_threads and axios and calls api.post directly, so no step of the
\* loop ever adds to scheduled. errorTimestamps is apiErrorTimestamps, the
\* error window of the main thread that getApiErrorRate reads
wkInit ==
  [pc |-> "idle", maxRetries |-> 0, attempt |-> 0, posts |-> 0, scheduled |-> 0,
   last |-> noAnswer, startedAt |-> 0, retryAt |-> 0, reply |-> noReply,
   tasks |-> 0, errorTimestamps |-> {}]

\* the timestamps the response interceptor of the worker's axios instance adds
\* to the error window for an answer received at t: the fulfilled branch sets
\* response.duration, the rejected branch is error => Promise.reject(error),
\* and neither calls trackApiErrorRate
interceptorErrorTimestamps(resolved, t) == {}

\* parentPort.on('message') up to the first POST; m = retryConfig.maxRetries,
\* 0 when it is absent
WorkerReceive(m) ==
  /\ wk.pc \in {"idle", "replied"}
  /\ wk.tasks < MaxWorkerTasks
  /\ wk' = [wkInit EXCEPT !.pc = "posting",
                          !.maxRetries = IF m = 0 THEN defaultMaxRetries ELSE m,
                          !.posts = 1, !.startedAt = now, !.tasks = wk.tasks + 1,
                          !.errorTimestamps = wk.errorTimestamps]
  /\ UNCHANGED <<ctlVars, poolVars, jobVars, statsVars, batchVars, ovVars, subVars, hostVars, limVars, traceVars, storeVars>>

\* the POST is answered: the body of the while loop from the answer on
WorkerAnswer(resp) ==
  /\ wk.pc = "posting"
  /\ LET remaining == wk.attempt + 1 < wk.maxRetries
         resolved == resp.status # 0 /\ validateStatus(resp.status)
         attempt == wk.attempt + 1
         isLastAttempt == attempt = wk.maxRetries
         categorizedError == categorizeError(resp)
         last == [status |-> resp.status, retryAfter |-> resp.retryAfter,
                  at |-> now, remaining |-> remaining,
                  category |-> IF resolved THEN "none" ELSE categorizedError.category]
         retryDelay == IF resp.status = 429 /\ resp.retryAfter >= 0
                       THEN resp.retryAfter * 1000
                       ELSE getBackoffDelay(attempt)
         answered == [wk EXCEPT !.errorTimestamps =
                                  @ \cup interceptorErrorTimestamps(resolved, now)]
     IN wk' = IF resolved
              THEN [answered EXCEPT !.pc = "replied", !.last = last,
                                    !.reply = successReply(resp, wk.attempt)]
              ELSE IF categorizedError.category = "REQUIRES_USER_ACTION"
                      \/ isLastAttempt
                      \/ ~shouldRetry(isLastAttempt, categorizedError)
              THEN [answered EXCEPT !.pc = "replied", !.last = last,
                                    !.attempt = attempt,
                                    !.reply = thrownReply(categorizedError)]
              ELSE [answered EXCEPT !.pc = "waiting", !.last = last,
                                    !.attempt = attempt,
                                    !.retryAt = now + retryDelay]
  /\ UNCHANGED <<ctlVars, poolVars, jobVars, statsVars, batchVars, ovVars, subVars, hostVars, limVars, traceVars, storeVars>>

\* the retry timer fires and the next POST is issued
WorkerRetry ==
  /\ wk.pc = "waiting"
  /\ now >= wk.retryAt
  /\ wk' = [wk EXCEPT !.pc = "posting", !.posts = @ + 1, !.startedAt = now]
  /\ UNCHANGED <<ctlVars, poolVars, jobVars, statsVars, batchVars, ovVars, subVars, hostVars, limVars, traceVars, storeVars>>

WorkerClockTick ==
  /\ now < StartTime + MaxWorkerClock * 1000
  /\ now' = now + 1000
  /\ UNCHANGED <<cm, workerUpdate, decision, cbLastTripped, ticks, scen, switches>>
  /\ UNCHANGED <<poolVars, jobVars, wkVars, statsVars, batchVars, ovVars, subVars, hostVars, limVars, traceVars, storeVars>>

InitWk == wk = wkInit

NextWk ==
  \/ \E m \in 0..defaultMaxRetries : WorkerReceive(m)
  \/ \E resp \in Responses : WorkerAnswer(resp)
  \/ WorkerRetry
  \/ WorkerClockTick

\* ------------------------------------------------------- session statistics
\* rec[r]: the processRecord call of the stand-alone worker for record r.
\* pending = the pipeline commands of its trackApiCall not yet applied,
\* applied = how many were applied, after = where the call goes once the
\* pipeline is done.  apistats: the hash apistats:<sessionId>.
\* tracked: history of the attempts answered, of the trackApiCall pipelines
\* issued, of those that carried a status code, and whether a command was
\* applied while another pipeline was partially applied.
maxRetries == 3
MaxStatRecords == 2
MaxCalls == 4

StatRecords == 1..MaxStatRecords

\* the answers of one POST: 0 stands for an error without a response
StatStatuses == {200, 404, 500, 0}

recInit ==
  [pc |-> "idle", attempt |-> 0, pending |-> <<>>, applied |-> 0, after |-> "idle"]

apistatsInit ==
  [total |-> 0, success |-> 0, failure |-> 0, status |-> [c \in StatStatuses |-> 0]]

trackedInit == [attempts |-> 0, calls |-> 0, withStatus |-> 0, overlap |-> FALSE]

\* mutant: the status counter is incremented whatever the status code
statusTrackedAlways(statusCode) == TRUE

\* if (statusCode)
statusTracked(statusCode) == statusCode # 0

\* mutant: the failure branch is missing
pipelineCommandsSuccessOnly(success, statusCode) ==
  <<[field |-> "total", code |-> 0]>>
  \o (IF success THEN <<[field |-> "success", code |-> 0]>> ELSE <<>>)
  \o (IF statusTracked(statusCode) THEN <<[field |-> "status", code |-> statusCode]>>
      ELSE <<>>)

\* the hincrby commands trackApiCall queues on its pipeline
pipelineCommands(success, statusCode) ==
  <<[field |-> "total", code |-> 0],
    [field |-> IF success THEN "success" ELSE "failure", code |-> 0]>>
  \o (IF statusTracked(statusCode) THEN <<[field |-> "status", code |-> statusCode]>>
      ELSE <<>>)

\* HINCRBY apistats:<sessionId> <field> 1
hincrby(stats, cmd) ==
  IF cmd.field = "total" THEN [stats EXCEPT !.total = @ + 1]
  ELSE IF cmd.field = "success" THEN [stats EXCEPT !.success = @ + 1]
  ELSE IF cmd.field = "failure" THEN [stats EXCEPT !.failure = @ + 1]
  ELSE [stats EXCEPT !.status[cmd.code] = @ + 1]

PartiallyApplied(r) == rec[r].pc = "tracking" /\ rec[r].applied > 0

\* processRecord is called for record r
StatsStart(r) ==
  /\ rec[r].pc = "idle"
  /\ rec' = [rec EXCEPT ![r] = [recInit EXCEPT !.pc = "calling"]]
  /\ UNCHANGED <<apistats, tracked>>
  /\ UNCHANGED <<ctlVars, poolVars, jobVars, wkVars, batchVars, ovVars, subVars, hostVars, limVars, traceVars, storeVars>>

\* the POST of record r is answered and trackApiCall runs up to pipeline.exec():
\* a resolved answer (status < 500) is tracked and returned, a rejected one is
\* tracked and retried until the last attempt; when storing the request fails
\* (redisOk = FALSE) trackApiCall returns without touching the statistics
ApiAnswer(r, status, redisOk) ==
  /\ rec[r].pc = "calling"
  /\ tracked.attempts < MaxCalls
  /\ LET resolved == status # 0 /\ status < 500
         attempt == IF resolved THEN rec[r].attempt ELSE rec[r].attempt + 1
         success == resolved /\ ~(status >= 400)
         after == IF resolved THEN "done"
                  ELSE IF attempt = maxRetries THEN "failed" ELSE "calling"
     IN /\ rec' = [rec EXCEPT ![r] =
                     IF redisOk
                     THEN [pc |-> "tracking", attempt |-> attempt,
                           pending |-> pipelineCommands(success, status),
                           applied |-> 0, after |-> after]
                     ELSE [pc |-> after, attempt |-> attempt, pending |-> <<>>,
                           applied |-> 0, after |-> after]]
        /\ tracked' = [tracked EXCEPT
                         !.attempts = @ + 1,
                         !.calls = IF redisOk THEN @ + 1 ELSE @,
                         !.withStatus = IF redisOk /\ status # 0 THEN @ + 1 ELSE @]
  /\ UNCHANGED apistats
  /\ UNCHANGED <<ctlVars, poolVars, jobVars, wkVars, batchVars, ovVars, subVars, hostVars, limVars, traceVars, storeVars>>

\* Redis applies the next command of the pipeline of record r; after the last
\* one pipeline.exec() resolves and processRecord goes on
PipelineStep(r) ==
  /\ rec[r].pc = "tracking"
  /\ apistats' = hincrby(apistats, Head(rec[r].pending))
  /\ rec' = [rec EXCEPT ![r] =
               IF Len(rec[r].pending) = 1
               THEN [@ EXCEPT !.pc = rec[r].after, !.pending = <<>>, !.applied = 0]
               ELSE [@ EXCEPT !.pending = Tail(@), !.applied = @ + 1]]
  /\ tracked' = [tracked EXCEPT
                   !.overlap = @ \/ \E q \in StatRecords \ {r} : PartiallyApplied(q)]
  /\ UNCHANGED <<ctlVars, poolVars, jobVars, wkVars, batchVars, ovVars, subVars, hostVars, limVars, traceVars, storeVars>>

InitStats ==
  /\ rec = [r \in StatRecords |-> recInit]
  /\ apistats = apistatsInit
  /\ tracked = trackedInit

NextStats ==
  \/ \E r \in StatRecords : StatsStart(r)
  \/ \E r \in StatRecords, status \in StatStatuses, redisOk \in BOOLEAN :
       ApiAnswer(r, status, redisOk)
  \/ \E r \in StatRecords : PipelineStep(r)

\* ------------------------------------------------------------- batchProcess
\* batch: one call of workerPool.batchProcess(records, options).  n =
\* records.length, ids[i] the job id of the task submitted for records[i],
\* results the returned array.
MaxBatch == 3

batchInit == [pc |-> "idle", n |-> 0, ids |-> <<>>, results |-> <<>>]

\* records.map(record => this.processRecord(record, options)): the order in
\* which the executeTask calls reach the executor of their promise.  On an
\* initialized pool it is the order of the records; otherwise the call for
\* records[0] runs initialize() and yields at its await, the calls for the
\* other records run through, and the first one resumes last
submitOrder(p, n) ==
  IF p.initialized THEN [k \in 1..n |-> k]
  ELSE [k \in 1..n |-> IF k < n THEN k + 1 ELSE 1]

\* the executeTask calls of the map, in that order; acc = [st, ids]
RECURSIVE submitAll(_, _, _)
submitAll(acc, order, kind) ==
  IF order = <<>> THEN acc
  ELSE LET st == executeTask(acc.st, kind)
       IN submitAll([st |-> st,
                     ids |-> [acc.ids EXCEPT ![Head(order)] = st.p.currentJobId]],
                    Tail(order), kind)

\* Promise.allSettled: every promise of the array is fulfilled or rejected
allSettled(ids, pr) == \A i \in DOMAIN ids : pr[ids[i]] \notin {"none", "pending"}

\* mutant: the results are laid out by job id
batchResultsByJobId(ids, pr) ==
  [i \in DOMAIN ids |->
     [success |-> pr[i] = "resolved", outcome |-> pr[i], record |-> i]]

\* results.map((result, index) => ({success, data | error, record: records[index]}))
batchResults(ids, pr) ==
  [i \in DOMAIN ids |->
     [success |-> pr[ids[i]] = "resolved", outcome |-> pr[ids[i]], record |-> i]]

\* batchProcess up to its await: one task per record
BatchSubmit(n, kind) ==
  /\ batch.pc = "idle"
  /\ shutdownPc = "running"
  /\ pool.currentJobId + n <= MaxTasks
  /\ LET acc == submitAll([st |-> [p |-> initialize(pool), pr |-> promise, pl |-> payload],
                           ids |-> [k \in 1..n |-> 0]],
                          submitOrder(pool, n), kind)
     IN /\ pool' = acc.st.p
        /\ promise' = acc.st.pr
        /\ payload' = acc.st.pl
        /\ batch' = [pc |-> "awaiting", n |-> n, ids |-> acc.ids, results |-> <<>>]
  /\ UNCHANGED <<shutdownPc, crashLog, crashes>>
  /\ UNCHANGED <<ctlVars, jobVars, wkVars, statsVars, ovVars, subVars, hostVars, limVars, traceVars, storeVars>>

\* the await of Promise.allSettled resumes and batchProcess returns
BatchReturn ==
  /\ batch.pc = "awaiting"
  /\ shutdownPc # "exited"
  /\ allSettled(batch.ids, promise)
  /\ batch' = [batch EXCEPT !.pc = "returned",
                            !.results = batchResults(batch.ids, promise)]
  /\ UNCHANGED <<ctlVars, poolVars, jobVars, wkVars, statsVars, ovVars, subVars, hostVars, limVars, traceVars, storeVars>>

InitBatch == batch = batchInit

\* the batchProcess call as the only submitter, with every handler of the pool
NextBatch ==
  \/ PoolInitialize
  \/ \E i \in 1..MAX_WORKERS : WorkerStartupMessage(i)
  \/ \E i \in 1..MAX_WORKERS, j \in TaskIds, type \in {"success", "error"} : WorkerReply(i, j, type)
  \/ \E i \in 1..MAX_WORKERS : WorkerError(i)
  \/ \E j \in TaskIds : TaskTimeout(j)
  \/ ShutdownBegin
  \/ ShutdownEnd
  \/ \E n \in 1..MaxBatch, kind \in {"clonable", "function"} : BatchSubmit(n, kind)
  \/ BatchReturn

\* ------------------------------------------------ overlapping timer callbacks
\* setInterval does not wait for the promise of its async callback: a callback
\* whose await (getQueueBacklog, redis.get, redis.hset) is still outstanding
\* when the timer fires again runs interleaved with the next one.
\* ov.pending: the callbacks suspended at an await, each with the value of its
\* local `now` and the await it is at; ov.lastChange: the clock time at which
\* currentConcurrency last changed, 0 before the first change.
MaxStarts == 8
MaxOverlap == 2

ovInit == [pending |-> {}, lastChange |-> 0]

OverlapScenarios == {"good", "errors"}

changedAt(s, s1, t, last) ==
  IF s1.currentConcurrency # s.currentConcurrency THEN t ELSE last

\* the timer fires: the callback runs up to its first await
TickStart ==
  /\ ticks < MaxStarts
  /\ Cardinality(ov.pending) < MaxOverlap
  /\ LET t == now + COOLDOWN_MS
     IN /\ now' = t
        /\ IF cm.circuitBreakerTripped
              /\ t - cm.circuitBreakerTripTime > CIRCUIT_BREAKER_RESET_TIMEOUT
           THEN /\ cm' = resetCircuitBreaker(cm)
                /\ workerUpdate' = MIN_CONCURRENCY
                /\ decision' = "reset"
                /\ ov' = [ov EXCEPT !.lastChange =
                            changedAt(cm, resetCircuitBreaker(cm), t, @)]
           ELSE IF cm.circuitBreakerTripped
           THEN /\ workerUpdate' = 0
                /\ decision' = "skip"
                /\ UNCHANGED <<cm, ov>>
           ELSE /\ ov' = [ov EXCEPT !.pending = @ \cup {[t |-> t, at |-> "metrics"]}]
                /\ UNCHANGED <<cm, workerUpdate, decision>>
  /\ ticks' = ticks + 1
  /\ UNCHANGED <<cbLastTripped, scen, switches>>
  /\ UNCHANGED <<poolVars, jobVars, wkVars, statsVars, batchVars, subVars, hostVars, limVars, traceVars, storeVars>>

\* the awaits of the metrics resolve: the callback runs from the histories to
\* its return, or to the await of redis.hset when it trips the breaker
TickGathered(e, sc) ==
  /\ e \in ov.pending
  /\ e.at = "metrics"
  /\ switches + (IF scen \notin {"none", sc} THEN 1 ELSE 0) <= MaxSwitches
  /\ LET g == gatherAndScore(cm, e.t, metricsOf(sc, cm))
         r == decide(g.st, e.t, g.health)
     IN IF tripCondition(g.st, g.health)
        THEN /\ cm' = [g.st EXCEPT !.circuitBreakerTripped = TRUE,
                                   !.circuitBreakerTripTime = e.t]
             /\ ov' = [ov EXCEPT !.pending =
                         (@ \ {e}) \cup {[t |-> e.t, at |-> "hset"]}]
             /\ UNCHANGED <<workerUpdate, decision>>
        ELSE /\ cm' = r.st
             /\ workerUpdate' = r.ret
             /\ decision' = r.log
             /\ ov' = [pending |-> ov.pending \ {e},
                       lastChange |-> changedAt(cm, r.st, now, ov.lastChange)]
  /\ scen' = sc
  /\ switches' = switches + (IF scen \notin {"none", sc} THEN 1 ELSE 0)
  /\ UNCHANGED <<now, cbLastTripped, ticks>>
  /\ UNCHANGED <<poolVars, jobVars, wkVars, statsVars, batchVars, subVars, hostVars, limVars, traceVars, storeVars>>

\* redis.hset of the trip record has settled: the rest of the trip branch
TickTripRecorded(e) ==
  /\ e \in ov.pending
  /\ e.at = "hset"
  /\ LET s1 == [cm EXCEPT !.inRecoveryMode = FALSE,
                          !.stabilityCounter = 0,
                          !.currentConcurrency = MIN_CONCURRENCY]
     IN /\ cm' = s1
        /\ ov' = [pending |-> ov.pending \ {e},
                  lastChange |-> changedAt(cm, s1, now, ov.lastChange)]
  /\ workerUpdate' = MIN_CONCURRENCY
  /\ decision' = "trip"
  /\ cbLastTripped' = e.t
  /\ UNCHANGED <<now, ticks, scen, switches>>
  /\ UNCHANGED <<poolVars, jobVars, wkVars, statsVars, batchVars, subVars, hostVars, limVars, traceVars, storeVars>>

InitOv == ov = ovInit

PendingTicks ==
  {[t |-> StartTime + k * COOLDOWN_MS, at |-> a] :
     k \in 1..MaxStarts, a \in {"metrics", "hset"}}

NextOverlap ==
  \/ TickStart
  \/ \E e \in PendingTicks, sc \in OverlapScenarios : TickGathered(e, sc)
  \/ \E e \in PendingTicks : TickTripRecorded(e)

\* ------------------------------------------- the handler, task by task
\* sub: the same job handler seen at the grain of the pool tasks.  inflight =
\* the records whose task has been submitted and has not settled, taken = the
\* history of the sub-batches handed to batchProcessRecords, i the loop index.
MaxJobRecords == 12

subInit == [pc |-> "idle", n |-> 0, i |-> 0, inflight |-> {}, taken |-> <<>>]

\* the handler reaches the batch loop with n valid records
SubStart(n) ==
  /\ sub.pc = "idle"
  /\ sub' = [subInit EXCEPT !.pc = "batch", !.n = n]
  /\ UNCHANGED <<ctlVars, poolVars, jobVars, wkVars, statsVars, batchVars, ovVars, hostVars, limVars, traceVars, storeVars>>

\* batchProcessRecords(batchRecords, ...) up to the await of batchProcess: one
\* task per record of the slice
SubBatchSubmit ==
  /\ sub.pc = "batch"
  /\ sub.i < sub.n
  /\ sub' = [sub EXCEPT !.pc = "awaiting",
                        !.inflight = batchRecordsOf(sub.i, sub.n),
                        !.taken = Append(@, batchRecordsOf(sub.i, sub.n))]
  /\ UNCHANGED <<ctlVars, poolVars, jobVars, wkVars, statsVars, batchVars, ovVars, hostVars, limVars, traceVars, storeVars>>

\* the task of record r settles: answered, rejected or timed out
SubTaskSettles(r) ==
  /\ r \in sub.inflight
  /\ sub' = [sub EXCEPT !.inflight = @ \ {r}]
  /\ UNCHANGED <<ctlVars, poolVars, jobVars, wkVars, statsVars, batchVars, ovVars, hostVars, limVars, traceVars, storeVars>>

\* Promise.allSettled resumes, batchProcessRecords returns and the loop body
\* goes on: batchResults.filter, the progress writes, the next slice; a throw
\* enters the catch block
SubBatchReturn ==
  /\ sub.pc = "awaiting"
  /\ sub.inflight = {}
  /\ \E ioOk \in BOOLEAN :
       sub' = IF ~batchProcessRecords(<<>>).isArray \/ ~ioOk
              THEN [sub EXCEPT !.pc = "fallback", !.i = 0]
              ELSE [sub EXCEPT !.i = @ + BATCH_SIZE,
                               !.pc = IF sub.i + BATCH_SIZE >= sub.n
                                      THEN "done" ELSE "batch"]
  /\ UNCHANGED <<ctlVars, poolVars, jobVars, wkVars, statsVars, batchVars, ovVars, hostVars, limVars, traceVars, storeVars>>

\* the fallback loop calls processRecord for records[i]: the breaker gate
\* throws before the task is submitted, otherwise one task is submitted
SubFallbackSubmit ==
  /\ sub.pc = "fallback"
  /\ sub.i < sub.n
  /\ \E gate \in BOOLEAN :
       sub' = [sub EXCEPT !.pc = "fallbackAwaiting",
                         !.inflight = IF gate THEN {} ELSE {sub.i + 1}]
  /\ UNCHANGED <<ctlVars, poolVars, jobVars, wkVars, statsVars, batchVars, ovVars, hostVars, limVars, traceVars, storeVars>>

\* processRecord has returned or thrown: the count, the progress writes
SubFallbackReturn ==
  /\ sub.pc = "fallbackAwaiting"
  /\ sub.inflight = {}
  /\ \E ioOk \in BOOLEAN :
       LET progress == sub.i % 5 = 0 \/ sub.i = sub.n - 1
       IN sub' = IF progress /\ ~ioOk
                 THEN [sub EXCEPT !.pc = "failed", !.i = @ + 1]
                 ELSE [sub EXCEPT !.i = @ + 1,
                                  !.pc = IF sub.i + 1 = sub.n THEN "done" ELSE "fallback"]
  /\ UNCHANGED <<ctlVars, poolVars, jobVars, wkVars, statsVars, batchVars, ovVars, hostVars, limVars, traceVars, storeVars>>

InitSub == sub = subInit

NextSub ==
  \/ \E n \in 1..MaxJobRecords : SubStart(n)
  \/ SubBatchSubmit
  \/ \E r \in 1..MaxJobRecords : SubTaskSettles(r)
  \/ SubBatchReturn
  \/ SubFallbackSubmit
  \/ SubFallbackReturn

\* ------------------------------------------------- the batch worker host
\* host: the worker module.  currentConcurrency = its copy of the width,
\* width = the concurrency option of workerInstance, active = the jobs whose
\* handler workerInstance is running, closing = the jobs whose handler is
\* still running in instances that createWorker has closed.
MaxHostTicks == 10

hostInit ==
  [currentConcurrency |-> MIN_CONCURRENCY, width |-> MIN_CONCURRENCY,
   active |-> 0, closing |-> 0]

HostScenarios == {"good", "bad", "errors"}

\* mutant: an update is applied only when it raises the width
appliedConcurrencyRaiseOnly(current, update) ==
  IF update > current THEN update ELSE current

\* if (workerUpdate) currentConcurrency = workerUpdate.concurrency; 0 stands
\* for a tick that returned null
appliedConcurrency(current, update) ==
  IF update # 0 THEN update ELSE current

\* createWorker(concurrency): workerInstance.close() is called and not
\* awaited, so the handlers the instance is running go on, and a new instance
\* with the new width and no job is started at once
createWorker(h, concurrency) ==
  [h EXCEPT !.width = concurrency, !.active = 0, !.closing = h.closing + h.active]

\* the callback of setInterval(..., COOLDOWN_MS): the tick, then the update
HostTick(sc) ==
  /\ ticks < MaxHostTicks
  /\ TickBody(sc)
  /\ LET h == [host EXCEPT !.currentConcurrency = appliedConcurrency(@, workerUpdate')]
     IN host' = IF workerUpdate' # 0 THEN createWorker(h, h.currentConcurrency)
                ELSE h
  /\ UNCHANGED <<poolVars, jobVars, wkVars, statsVars, batchVars, ovVars, subVars, limVars, traceVars, storeVars>>

\* workerInstance takes jobs from a queue with a backlog until it runs as
\* many as its width
HostFetch ==
  /\ host.active < host.width
  /\ host' = [host EXCEPT !.active = host.width]
  /\ UNCHANGED <<ctlVars, poolVars, jobVars, wkVars, statsVars, batchVars, ovVars, subVars, limVars, traceVars, storeVars>>

\* the handlers running in workerInstance return
HostJobsDone ==
  /\ host.active > 0
  /\ host' = [host EXCEPT !.active = 0]
  /\ UNCHANGED <<ctlVars, poolVars, jobVars, wkVars, statsVars, batchVars, ovVars, subVars, limVars, traceVars, storeVars>>

\* the handlers still running in closed instances return
HostClosedJobsDone ==
  /\ host.closing > 0
  /\ host' = [host EXCEPT !.closing = 0]
  /\ UNCHANGED <<ctlVars, poolVars, jobVars, wkVars, statsVars, batchVars, ovVars, subVars, limVars, traceVars, storeVars>>

InitHost == host = hostInit

NextHost ==
  \/ \E sc \in HostScenarios : HostTick(sc)
  \/ HostFetch
  \/ HostJobsDone
  \/ HostClosedJobsDone

\* ------------------------------------------------------ the rate limiter
\* lim: the settings of the Bottleneck limiter as updateSettings leaves them.
\* minTime is in 1/1000 ms, the error rate in 1/100 and the response time in
\* ms.  NotANumber stands for the NaN that arithmetic on a value that is no
\* number gives; every comparison with it is false.
MaxTunes == 4

NotANumber == 0 - 1

limInit == [maxConcurrent |-> 5, minTime |-> 100000, tunes |-> 0]

\* what limiter.currentReservoir may evaluate to: a number of requests left in
\* the reservoir (100 at the start), or a value that is no number
ReservoirReads == {0, 10, 20, 100, NotANumber}

\* what limiter.minTime may evaluate to: the setting, or a value that is no
\* number
MinTimeReads == {lim.minTime, NotANumber}

TunedErrorRates == {0, 5, 50}

TunedResponseTimes == {100, 300}

\* Math.max(1, Math.floor(limiter.currentReservoir * 0.8))
reducedMaxConcurrent(currentReservoir) ==
  IF currentReservoir = NotANumber THEN NotANumber
  ELSE Max(1, (currentReservoir * 8) \div 10)

\* Math.min(500, limiter.minTime * 1.2)
raisedMinTime(minTime) ==
  IF minTime = NotANumber THEN NotANumber ELSE Min(500000, (minTime * 12) \div 10)

\* Math.min(20, Math.ceil(limiter.currentReservoir * 1.1))
raisedMaxConcurrent(currentReservoir) ==
  IF currentReservoir = NotANumber THEN NotANumber
  ELSE Min(20, CeilDiv(currentReservoir * 11, 10))

\* Math.max(50, Math.floor(limiter.minTime * 0.9))
reducedMinTime(minTime) ==
  IF minTime = NotANumber THEN NotANumber
  ELSE Max(50000, (((minTime * 9) \div 10) \div 1000) * 1000)

\* one firing of the tuning timer
LimiterTune(errorRate, avgResponseTime, currentReservoir, minTime) ==
  /\ lim.tunes < MaxTunes
  /\ lim' = IF errorRate > 10
            THEN [maxConcurrent |-> reducedMaxConcurrent(currentReservoir),
                  minTime |-> raisedMinTime(minTime), tunes |-> lim.tunes + 1]
            ELSE IF errorRate < 1 /\ avgResponseTime < 200
            THEN [maxConcurrent |-> raisedMaxConcurrent(currentReservoir),
                  minTime |-> reducedMinTime(minTime), tunes |-> lim.tunes + 1]
            ELSE [lim EXCEPT !.tunes = @ + 1]
  /\ UNCHANGED <<ctlVars, poolVars, jobVars, wkVars, statsVars, batchVars, ovVars, subVars, hostVars, traceVars, storeVars>>

InitLim == lim = limInit

NextLimiter ==
  \E errorRate \in TunedErrorRates, avgResponseTime \in TunedResponseTimes,
     currentReservoir \in ReservoirReads, minTime \in MinTimeReads :
    LimiterTune(errorRate, avgResponseTime, currentReservoir, minTime)

\* ------------------------------------------------------- request traces
\* trace: the trace keys of one session as trackApiCall writes them.
\* apidata = the reqIds whose hash apidata:<sessionId>:<reqId> is populated,
\* apirequests = the members of the sorted set apirequests:<sessionId>,
\* call[c] = the position of the c-th concurrent execution of trackApiCall and
\* the reqId it was given, started = the executions begun so far.
MaxTraceCalls == 4
MaxReqIds == 3

TraceCalls == 1..2

ReqIds == 1..MaxReqIds

traceInit ==
  [apidata |-> {}, apirequests |-> {},
   call |-> [c \in TraceCalls |-> [pc |-> "idle", reqId |-> 0]],
   started |-> 0]

\* mutant: a failed hmset is ignored and the index entry is written anyway
afterHmsetIgnoringError(ok) == "zadd"

\* await redis.hmset(key, dataToStore) inside the try block: a rejection
\* leaves the function through the catch, which returns null
afterHmset(ok) == IF ok THEN "zadd" ELSE "idle"

\* trackApiCall is called: reqId is requestData.requestId or a random id
TraceStart(c, reqId) ==
  /\ trace.call[c].pc = "idle"
  /\ trace.started < MaxTraceCalls
  /\ trace' = [trace EXCEPT !.call[c] = [pc |-> "hmset", reqId |-> reqId],
                            !.started = @ + 1]
  /\ UNCHANGED <<ctlVars, poolVars, jobVars, wkVars, statsVars, batchVars, ovVars, subVars, hostVars, limVars, storeVars>>

\* redis.hmset settles
TraceHmset(c, ok) ==
  /\ trace.call[c].pc = "hmset"
  /\ trace' = [trace EXCEPT !.apidata = IF ok THEN @ \cup {trace.call[c].reqId} ELSE @,
                            !.call[c].pc = afterHmset(ok)]
  /\ UNCHANGED <<ctlVars, poolVars, jobVars, wkVars, statsVars, batchVars, ovVars, subVars, hostVars, limVars, storeVars>>

\* redis.zadd settles; the statistics pipeline follows or the catch returns
TraceZadd(c, ok) ==
  /\ trace.call[c].pc = "zadd"
  /\ trace' = [trace EXCEPT !.apirequests = IF ok THEN @ \cup {trace.call[c].reqId} ELSE @,
                            !.call[c].pc = "idle"]
  /\ UNCHANGED <<ctlVars, poolVars, jobVars, wkVars, statsVars, batchVars, ovVars, subVars, hostVars, limVars, storeVars>>

InitTrace == trace = traceInit

NextTrace ==
  \/ \E c \in TraceCalls, reqId \in ReqIds : TraceStart(c, reqId)
  \/ \E c \in TraceCalls, ok \in BOOLEAN : TraceHmset(c, ok)
  \/ \E c \in TraceCalls, ok \in BOOLEAN : TraceZadd(c, ok)

\* ------------------------------------------------------- stored outcomes
\* store: what the record service has persisted for the records of one
\* session and job.  keys = the userActionError:<id> and successResponse:<id>
\* keys that exist, list[kind] = the ids pushed to userActionErrors:<sessionId>
\* and successResponses:<sessionId>, clock = Date.now() in ms from the start of
\* the job, records = the records whose outcome has been stored.
MaxStoredRecords == 4
MaxStoreClock == 3

StoredKinds == {"userActionError", "successResponse"}

storeInit ==
  [keys |-> {}, list |-> [k \in StoredKinds |-> <<>>], clock |-> 0, records |-> 0]

\* `${sessionId}:${jobId}:${Date.now()}`: the id does not depend on the record
outcomeId(sessionId, jobId, t) == <<sessionId, jobId, t>>

\* storeUserActionError / storeSuccessfulApiResponse for the next record:
\* setex of the entry under its id, lpush of the id
StoreOutcome(kind) ==
  /\ store.records < MaxStoredRecords
  /\ store' = [store EXCEPT
                 !.keys = @ \cup {[kind |-> kind,
                                   id |-> outcomeId("session", "job", store.clock)]},
                 !.list[kind] = Append(@, outcomeId("session", "job", store.clock)),
                 !.records = @ + 1]
  /\ UNCHANGED <<ctlVars, poolVars, jobVars, wkVars, statsVars, batchVars, ovVars, subVars, hostVars, limVars, traceVars>>

\* a millisecond passes
StoreClockTick ==
  /\ store.clock < MaxStoreClock
  /\ store' = [store EXCEPT !.clock = @ + 1]
  /\ UNCHANGED <<ctlVars, poolVars, jobVars, wkVars, statsVars, batchVars, ovVars, subVars, hostVars, limVars, traceVars>>

InitStore == store = storeInit

NextStore ==
  \/ \E kind \in StoredKinds : StoreOutcome(kind)
  \/ StoreClockTick

Init == InitCtl /\ InitPool /\ InitJob /\ InitWk /\ InitStats /\ InitBatch /\ InitOv /\ InitSub /\ InitHost /\ InitLim /\ InitTrace /\ InitStore

NextCtl == \E sc \in Scenarios : Tick(sc)

NextRecovery == \E sc \in RecoveryScenarios : Tick(sc)

NextSteady == \E sc \in SteadyScenarios : Tick(sc)

NextBreaker == \E sc \in BreakerScenarios : Tick(sc)

NextSlow == \E sc \in SlowScenarios : Tick(sc)

NextDecrease == \E sc \in DecreaseScenarios : Tick(sc)

SpecCtl == Init /\ [][NextCtl]_vars

SpecRecovery == Init /\ [][NextRecovery]_vars

SpecSteady == Init /\ [][NextSteady]_vars

SpecBreaker == Init /\ [][NextBreaker]_vars

SpecSlow == Init /\ [][NextSlow]_vars

SpecDecrease == Init /\ [][NextDecrease]_vars

SpecOverlap == Init /\ [][NextOverlap]_vars

SpecPool == Init /\ [][NextPool]_vars

\* the pool with at most MaxLiveTasks submissions; a timer that is armed fires
NextPoolLive == NextPool /\ pool'.currentJobId <= MaxLiveTasks

LiveTaskIds == 1..MaxLiveTasks

LiveSpecPool ==
  Init /\ [][NextPoolLive]_vars /\ \A j \in LiveTaskIds : WF_vars(TaskTimeout(j))

SpecBatch == Init /\ [][NextBatch]_vars

SpecJob == Init /\ [][NextJob]_vars

SpecValidate == Init /\ [][NextValidate]_vars

\* every await of the handler returns: the task of a record settles (at the
\* latest by its timer) and a write is answered or fails
LiveSpecJob ==
  /\ Init
  /\ [][NextJob]_vars
  /\ WF_vars(BatchProcess)
  /\ WF_vars(FallbackRecord)
  /\ WF_vars(JobFinish)

SpecHost == Init /\ [][NextHost]_vars

SpecLimiter == Init /\ [][NextLimiter]_vars

NextCtlLive == \E sc \in {"good", "errors"} : LiveTick(sc)

\* setInterval keeps firing the callback: every step of NextCtlLive is one
\* firing, and one is possible as long as ticks is below its bound
TimerFires == ticks < MaxLiveTicks /\ ticks' = ticks + 1

LiveSpecCtl == Init /\ [][NextCtlLive]_vars /\ WF_ticks(TimerFires)

SpecTrace == Init /\ [][NextTrace]_vars

SpecStore == Init /\ [][NextStore]_vars

SpecSub == Init /\ [][NextSub]_vars

SpecWorker == Init /\ [][NextWk]_vars

SpecStats == Init /\ [][NextStats]_vars

Settled == {"resolved", "error", "timeout", "send-failed", "shutdown"}

LostTasks == {c.task : c \in crashLog}

\* C4: every task submitted through executeTask eventually settles
C4_EveryTaskSettles ==
  \A j \in LiveTaskIds : (promise[j] = "pending") ~> (promise[j] \in Settled)

C4_Witness ==
  \E j, k \in TaskIds : promise[j] = "timeout" /\ promise[k] = "send-failed"

\* C5: no pool worker has more than one task in flight and the tasks in
\* flight are at most the pool size
C5_OneTaskPerWorker ==
  /\ \A i \in 1..Len(pool.workers) : Cardinality(pool.workers[i].tasks) <= 1
  /\ Cardinality(UNION {pool.workers[i].tasks : i \in 1..Len(pool.workers)}) <= pool.size

\* C6: a crash replaces the worker at the same index, a task that was in
\* flight on the crashed worker reaches its submitter as an error, and the
\* pool keeps serving (C6_Witness: a task submitted after the crash resolves)
CrashReplacesWorker ==
  crashes' > crashes =>
    /\ Len(pool'.workers) = Len(pool.workers)
    /\ \A i \in 1..Len(pool'.workers) : pool'.workers[i].alive
    /\ \E index \in 1..Len(pool.workers) :
         /\ pool'.workers[index] = newWorker
         /\ InSeq(index, pool'.workersAvailable)
         /\ \A i \in 1..Len(pool.workers) :
              i # index => pool'.workers[i] = pool.workers[i]

C1_ConcurrencyWithinLimits ==
  /\ cm.currentConcurrency >= MIN_CONCURRENCY
  /\ cm.currentConcurrency <= MAX_CONCURRENCY

C1_Witness == cm.currentConcurrency = MAX_CONCURRENCY /\ decision = "increase"

\* C2: whenever a run of the batch job handler completes, successCount +
\* failureCount equals the number of records of the job, also when the
\* sub-batch path throws and the handler falls back to serial processing
C2_CountsMatchRecords ==
  job.pc = "completed" => job.successCount + job.failureCount = job.n

C2_Witness ==
  /\ job.pc = "completed"
  /\ job.n >= 2
  /\ \E h \in handled : h.path = "batch"
  /\ \E h \in handled : h.path = "single" /\ h.result = "circuit-breaker"
  /\ \E h \in handled : h.path = "single" /\ h.result = "send-failed"

\* C3: while the stored breaker record is inside its reset timeout, every
\* record handed to the record pipeline, through processRecord or through
\* batchProcessRecords, fails with the circuit-breaker error and is not
\* submitted to the pool
C3_BreakerBlocksPipeline ==
  \A h \in handled :
    h.breakerActive => (~h.submitted /\ h.result = "circuit-breaker")

\* C7: a record whose POST is answered with status 422 is not retried, is
\* reported as an error of category REQUIRES_USER_ACTION and ends as a stored
\* user-action error counted as a failure
C7_UserActionOn422 ==
  wk.last.status = 422 =>
    /\ wk.pc = "replied"
    /\ wk.reply.type = "error"
    /\ wk.reply.category = "REQUIRES_USER_ACTION"
    /\ serviceOutcome(wk.reply) = "userAction"

\* C8: after an answer 429 with an integer Retry-After of k seconds and
\* attempts remaining, the record is retried and the next attempt starts no
\* earlier than max(k, 1) seconds after the answer
C8_RetryAfterHonoured ==
  (wk.last.status = 429 /\ wk.last.retryAfter >= 0 /\ wk.last.remaining) =>
    LET earliest == wk.last.at + Max(wk.last.retryAfter, 1) * 1000
    IN \/ wk.pc = "waiting" /\ wk.retryAt >= earliest
       \/ wk.pc = "posting" /\ wk.startedAt >= earliest

\* C9: in every state in which no trackApiCall pipeline is partially applied,
\* total = success + failure, whatever the interleaving of concurrent pipelines
C9_TotalIsSuccessPlusFailure ==
  (\A r \in StatRecords : ~PartiallyApplied(r)) =>
    apistats.total = apistats.success + apistats.failure

C9_Witness ==
  /\ tracked.overlap
  /\ \A r \in StatRecords : ~PartiallyApplied(r)
  /\ apistats.success >= 1
  /\ apistats.failure >= 1

Quiescent == \A r \in StatRecords : rec[r].pc \in {"idle", "done", "failed"}

TerminalOutcomes == Cardinality({r \in StatRecords : rec[r].pc \in {"done", "failed"}})

StatusSum ==
  apistats.status[200] + apistats.status[404] + apistats.status[500]
  + apistats.status[0]

\* C10 as stated: after N records reached a terminal outcome (every attempt
\* having been tracked), total = N, success + failure = N and the status
\* counters sum to N
C10_CountsEqualOutcomes ==
  (Quiescent /\ tracked.calls = tracked.attempts) =>
    /\ apistats.total = TerminalOutcomes
    /\ apistats.success + apistats.failure = TerminalOutcomes
    /\ StatusSum = TerminalOutcomes

\* C10 amended: after N records reached a terminal outcome, total = success +
\* failure = the number of tracked attempts, which is at most the number of
\* attempts made, itself between N and maxRetries * N, and the status
\* counters sum to the number of tracked attempts that carried a status code
C10_CountsEqualTrackedAttempts ==
  Quiescent =>
    /\ apistats.total = tracked.calls
    /\ apistats.success + apistats.failure = tracked.calls
    /\ StatusSum = tracked.withStatus
    /\ tracked.withStatus <= tracked.calls
    /\ tracked.calls <= tracked.attempts
    /\ TerminalOutcomes <= tracked.attempts
    /\ tracked.attempts <= maxRetries * TerminalOutcomes

C10_Witness ==
  /\ Quiescent
  /\ TerminalOutcomes = MaxStatRecords
  /\ apistats.total > TerminalOutcomes
  /\ StatusSum < apistats.total
  /\ StatusSum > 0

\* C11: every POST a pool worker issues for a record, at each attempt of the
\* retry loop, is executed inside the rate limiter's schedule
C11_PostsGoThroughLimiter == wk.scheduled = wk.posts

C13_OneResultPerRecordInOrder ==
  /\ batch.pc = "returned" =>
       /\ Len(batch.results) = batch.n
       /\ \A i \in 1..batch.n :
            /\ batch.results[i].record = i
            /\ batch.results[i].outcome = promise[batch.ids[i]]
            /\ batch.results[i].outcome \in Settled
            /\ batch.results[i].success <=> promise[batch.ids[i]] = "resolved"
  /\ batch.pc = "awaiting" =>
       (batch.results = <<>> /\ \A i \in 1..batch.n : promise[batch.ids[i]] # "none")

C13_Witness ==
  /\ batch.pc = "returned"
  /\ batch.n >= 2
  /\ batch.ids[1] > batch.ids[2]
  /\ ~batch.results[1].success
  /\ batch.results[2].success

\* C14: the step in which shutdown() starts rejects every task that is pending,
\* queued or dispatched, with the shutdown error; from then on no promise
\* changes, no task is dispatched or stored, the queue stays empty and no
\* worker is alive; when shutdown has completed the job table and the queue
\* are empty, the worker list is empty and the pool is uninitialized
C14_ShutdownStep ==
  /\ (shutdownPc = "running" /\ shutdownPc' = "terminating") =>
       \A j \in TaskIds : promise[j] = "pending" => promise'[j] = "shutdown"
  /\ shutdownPc # "running" => promise' = promise
  /\ shutdownPc' # "running" =>
       /\ pool'.jobs = {}
       /\ pool'.queue = <<>>
       /\ \A j \in TaskIds : promise'[j] # "pending"
       /\ \A k \in 1..Len(pool'.workers) :
            ~pool'.workers[k].alive /\ pool'.workers[k].tasks = {}
  /\ shutdownPc' = "exited" => (pool'.workers = <<>> /\ ~pool'.initialized)

C15_SendFailureIsSystemError ==
  \A j \in TaskIds :
    promise[j] = "send-failed" => poolErrorCategory(promise[j]) = "SYSTEM_ERROR"

\* C16: every error reply of a pool worker, which the pool hands unchanged to
\* the submitter of the task, carries a category of the closed set
C16_ErrorsCarryCategory ==
  wk.reply.type = "error" => wk.reply.category \in ERROR_CATEGORIES

\* C17: when a record has reached its terminal outcome, one request trace has
\* been written and indexed for each attempt that issued a POST
C17_OneTracePerAttempt ==
  wk.pc = "replied" => tracesWritten(wk.reply) = wk.posts

\* the equal step of a recovery: (floor(1.5 * MIN) - MIN) / MAX_RECOVERY_STEPS
RecoveryTarget == (MIN_CONCURRENCY * 3) \div 2

RecoveryStepSize == (RecoveryTarget - MIN_CONCURRENCY) \div MAX_RECOVERY_STEPS

\* C18: a tick later than the reset timeout after the trip, and no earlier
\* tick, clears the breaker and enters recovery at MIN; every tick that takes
\* the recovery branch raises the concurrency by one equal step, never above
\* floor(1.5 * MIN), and recovery ends exactly when that target is reached,
\* which is at the latest the MAX_RECOVERY_STEPS-th recovery tick
C18_RecoveryTick ==
  ticks' # ticks =>
    /\ cm.circuitBreakerTripped =>
         IF now' - cm.circuitBreakerTripTime > CIRCUIT_BREAKER_RESET_TIMEOUT
         THEN /\ decision' = "reset"
              /\ ~cm'.circuitBreakerTripped
              /\ cm'.inRecoveryMode
              /\ cm'.recoveryStepsTaken = 0
              /\ cm'.currentConcurrency = MIN_CONCURRENCY
              /\ workerUpdate' = MIN_CONCURRENCY
         ELSE cm' = cm /\ decision' = "skip"
    /\ decision' = "recovery" =>
         /\ cm.inRecoveryMode
         /\ cm.currentConcurrency =
              MIN_CONCURRENCY + RecoveryStepSize * cm.recoveryStepsTaken
         /\ cm'.recoveryStepsTaken = cm.recoveryStepsTaken + 1
         /\ cm'.currentConcurrency = cm.currentConcurrency + RecoveryStepSize
         /\ cm'.currentConcurrency <= RecoveryTarget
         /\ cm'.recoveryStepsTaken <= MAX_RECOVERY_STEPS
         /\ cm'.inRecoveryMode <=> cm'.currentConcurrency < RecoveryTarget
    /\ (cm.inRecoveryMode /\ cm'.inRecoveryMode) =>
         cm'.currentConcurrency \in {cm.currentConcurrency,
                                     cm.currentConcurrency + RecoveryStepSize}

C18_RecoveryClimbs == [][C18_RecoveryTick]_vars

C18_Witness ==
  /\ decision = "recovery"
  /\ ~cm.inRecoveryMode
  /\ cm.recoveryStepsTaken = MAX_RECOVERY_STEPS
  /\ cm.currentConcurrency = RecoveryTarget

\* the number of latest samples, at most HISTORY_LENGTH, that are the steady one
RECURSIVE trailingSteady(_, _)
trailingSteady(cpuH, blH) ==
  IF cpuH = <<>> \/ blH = <<>> THEN 0
  ELSE IF cpuH[Len(cpuH)] = steadyMetrics.cpu /\ blH[Len(blH)] = steadyMetrics.backlog
  THEN 1 + trailingSteady(SubSeq(cpuH, 1, Len(cpuH) - 1), SubSeq(blH, 1, Len(blH) - 1))
  ELSE 0

steadySamples(s) == trailingSteady(s.cpuHistory, s.backlogHistory)

\* a tick outside breaker and recovery that was fed the steady sample
SteadyTick ==
  /\ ticks' # ticks
  /\ scen' = "steady"
  /\ ~cm.circuitBreakerTripped
  /\ ~cm.inRecoveryMode

C19_SteadyTick ==
  SteadyTick =>
    /\ cm'.currentConcurrency >= cm.currentConcurrency
    /\ cm'.currentConcurrency <= MAX_CONCURRENCY
    /\ cm'.currentConcurrency > cm.currentConcurrency =>
         /\ decision' = "increase"
         /\ LastOf(cm'.previousSystemHealth, 0) > 18000
         /\ cm'.stabilityCounter = cm.stabilityCounter + 1
         /\ cm'.currentConcurrency - cm.currentConcurrency =
              IF cm'.stabilityCounter > CONCURRENCY_STABILITY_THRESHOLD
              THEN CONCURRENCY_INCREASE_RATE ELSE 1
    /\ steadySamples(cm') >= 4 =>
         /\ LastOf(cm'.previousSystemHealth, 1) = 0
         /\ cm'.currentConcurrency = cm.currentConcurrency

AttemptFailed(w) == w.last.category # "none"

\* C20: when a POST of the retry loop has failed, a further attempt is
\* scheduled if and only if it was not the last attempt and the error was
\* classified TEMPORARY_FAILURE or NETWORK_ERROR; an error classified
\* REQUIRES_USER_ACTION ends the loop; a POST that did not fail ends the loop;
\* the attempts of one record are issued one after the other, numbered
\* 1, 2, ... and never more than maxRetries of them
C20_RetryStep ==
  /\ (wk.pc = "posting" /\ wk'.pc # "posting") =>
       /\ wk'.pc \in {"waiting", "replied"}
       /\ wk'.attempt = IF AttemptFailed(wk') THEN wk.attempt + 1 ELSE wk.attempt
       /\ wk'.pc = "waiting" <=>
            /\ AttemptFailed(wk')
            /\ wk'.attempt < wk.maxRetries
            /\ wk'.last.category \in {"TEMPORARY_FAILURE", "NETWORK_ERROR"}
       /\ wk'.last.category = "REQUIRES_USER_ACTION" => wk'.pc = "replied"
  /\ (wk.pc = "waiting" /\ wk'.pc # "waiting") =>
       /\ wk'.pc = "posting"
       /\ wk'.posts = wk.posts + 1
  /\ wk'.pc = "posting" =>
       (wk'.posts = wk'.attempt + 1 /\ wk'.posts <= wk'.maxRetries)
  /\ wk'.pc \in {"waiting", "replied"} => wk'.posts <= wk'.maxRetries

avgErrorAbove30(s) == 2 * SumSeq(s.errorRateHistory) > 3 * Len(s.errorRateHistory)

healthOfTick(s) == LastOf(s.previousSystemHealth, 0)

\* C21: a tick that starts with the breaker clear and computes avgError > 0.30
\* or systemHealth < -0.7 sets the breaker, puts the concurrency at MIN, writes
\* the trip record and takes no other decision (no recovery step, no change of
\* the counters or of the time of the last change); every later tick that
\* starts no more than CIRCUIT_BREAKER_RESET_TIMEOUT after the trip changes
\* nothing and returns no update
C21_BreakerTick ==
  ticks' # ticks =>
    /\ (~cm.circuitBreakerTripped
        /\ (avgErrorAbove30(cm') \/ healthOfTick(cm') < -42000)) =>
         /\ decision' = "trip"
         /\ cm'.circuitBreakerTripped
         /\ cm'.circuitBreakerTripTime = now'
         /\ cm'.currentConcurrency = MIN_CONCURRENCY
         /\ workerUpdate' = MIN_CONCURRENCY
         /\ cbLastTripped' = now'
         /\ ~cm'.inRecoveryMode
         /\ cm'.recoveryStepsTaken = cm.recoveryStepsTaken
         /\ cm'.consecutiveDecreaseTriggers = cm.consecutiveDecreaseTriggers
         /\ cm'.lastConcurrencyChange = cm.lastConcurrencyChange
    /\ (cm.circuitBreakerTripped
        /\ now' - cm.circuitBreakerTripTime <= CIRCUIT_BREAKER_RESET_TIMEOUT) =>
         /\ decision' = "skip"
         /\ cm' = cm
         /\ workerUpdate' = 0
         /\ cbLastTripped' = cbLastTripped
    /\ cm'.circuitBreakerTripped =>
         (cm'.currentConcurrency = MIN_CONCURRENCY
          /\ cbLastTripped' = cm'.circuitBreakerTripTime)

C22_ChangeStep ==
  (cm'.currentConcurrency # cm.currentConcurrency /\ ov.lastChange # 0) =>
    now' - ov.lastChange >= COOLDOWN_MS

C22_ChangesRespectCooldown == [][C22_ChangeStep]_vars

\* a tick that took the Decrease branch: the only branch that adds a trigger
DecreaseTick ==
  /\ ticks' # ticks
  /\ cm'.consecutiveDecreaseTriggers = cm.consecutiveDecreaseTriggers + 1

\* the severity multiplier of the tick that led to state s
severityOfTick(s) ==
  IF SumSeq(s.errorRateHistory) > Len(s.errorRateHistory) THEN 3
  ELSE IF healthOfTick(s) < -36000 THEN 2 ELSE 1

\* C23 as stated: a Decrease tick without a negative predictive adjustment
\* lowers the concurrency by min(consecutiveDecreaseTriggers, MAX_DECREASE_STEP)
\* times the severity multiplier, not below MIN
C23_DecreaseTickScaled ==
  (DecreaseTick /\ cm'.predictedConcurrencyAdjustment >= 0) =>
    cm'.currentConcurrency =
      Max(MIN_CONCURRENCY,
          cm.currentConcurrency
            - Min(cm'.consecutiveDecreaseTriggers, MAX_DECREASE_STEP) * severityOfTick(cm'))

C23_DecreaseByScaledStep == [][C23_DecreaseTickScaled]_vars

\* C23 amended: a Decrease tick without a negative predictive adjustment
\* lowers the concurrency by min(consecutiveDecreaseTriggers, MAX_DECREASE_STEP
\* times the severity multiplier), not below MIN: the severity raises the cap
\* of the step to 3, 6 or 9, and the step itself is the number of consecutive
\* Decrease ticks up to that cap
C23_DecreaseTickCapped ==
  (DecreaseTick /\ cm'.predictedConcurrencyAdjustment >= 0) =>
    /\ cm'.currentConcurrency =
         Max(MIN_CONCURRENCY,
             cm.currentConcurrency
               - Min(cm'.consecutiveDecreaseTriggers, MAX_DECREASE_STEP * severityOfTick(cm')))
    /\ cm'.stabilityCounter = 0
    /\ cm'.currentConcurrency # cm.currentConcurrency =>
         (decision' = "decrease" /\ cm'.lastConcurrencyChange = now')

C23_DecreaseByCappedStep == [][C23_DecreaseTickCapped]_vars

C23_Witness ==
  /\ decision = "decrease"
  /\ severityOfTick(cm) > 1
  /\ cm.consecutiveDecreaseTriggers > MAX_DECREASE_STEP
  /\ cm.predictedConcurrencyAdjustment >= 0
  /\ cm.currentConcurrency > MIN_CONCURRENCY

\* a tick outside breaker and recovery, past the cooldown, that does not trip,
\* on which the Increase conditions do not hold and whose average response
\* time exceeds 1.5 times the average recorded at the previous tick
SlowerTick ==
  /\ ticks' # ticks
  /\ ~cm.circuitBreakerTripped
  /\ ~cm'.circuitBreakerTripped
  /\ ~cm.inRecoveryMode
  /\ now' - cm.lastConcurrencyChange >= COOLDOWN_MS
  /\ ~increaseCondition(cm', healthOfTick(cm'))
  /\ cm.lastAvgResponseTime > 0
  /\ 2 * avgResponseTimeOf(cm'.responseTimeHistory) > 3 * cm.lastAvgResponseTime

\* C24: such a tick takes the Decrease branch
C24_SlowerTickDecreases == [][SlowerTick => DecreaseTick]_vars

TrendSamples == {-1, 0, 1}

\* the same three values in the unit of the response-time changes (1/1000)
ChangeSamples == {-1000, 0, 1000}

SamplesIn(trend, S) ==
  /\ Len(trend) <= TREND_HISTORY_LENGTH
  /\ \A k \in 1..Len(trend) : trend[k] \in S

\* C25: every computed systemHealth lies in [-1, 1], and each of the four
\* trend lists it is computed from holds at most TREND_HISTORY_LENGTH samples,
\* each of them +1, -1 or 0
C25_HealthInUnitRange ==
  /\ \A k \in 1..Len(cm.previousSystemHealth) :
       cm.previousSystemHealth[k] >= -60000 /\ cm.previousSystemHealth[k] <= 60000
  /\ SamplesIn(cm.cpuTrend, TrendSamples)
  /\ SamplesIn(cm.errorTrend, TrendSamples)
  /\ SamplesIn(cm.backlogTrend, TrendSamples)
  /\ SamplesIn(cm.responseTimeChangeTrend, ChangeSamples)

\* the records of job.data that lack memberId or requestId, by position from 0
OffendingIndices(records) ==
  {k - 1 : k \in {q \in 1..Len(records.items) :
                    ~records.items[q].memberId \/ ~records.items[q].requestId}}

HasNullEntry(records) ==
  \E k \in 1..Len(records.items) : ~records.items[k].isObject

ViolatesPreconditions(in) ==
  \/ ~in.records.isArray
  \/ Len(in.records.items) = 0
  \/ OffendingIndices(in.records) # {}
  \/ ~in.hasConfig

SliceOf(k, n) == ((k - 1) * BATCH_SIZE + 1)..Min(k * BATCH_SIZE, n)

\* C27: a task is submitted only when no task of the job is in flight, so no
\* record of a later sub-batch is submitted before every record of the earlier
\* one has settled; the k-th sub-batch handed to the pool is the k-th slice of
\* BATCH_SIZE records in input order; never more than BATCH_SIZE records of
\* the job are in flight
C27_SubBatchStep ==
  /\ ~(sub'.inflight \subseteq sub.inflight) => sub.inflight = {}
  /\ Cardinality(sub'.inflight) <= BATCH_SIZE
  /\ \A k \in 1..Len(sub'.taken) : sub'.taken[k] = SliceOf(k, sub'.n)
  /\ sub'.pc = "awaiting" => sub'.inflight \subseteq sub'.taken[Len(sub'.taken)]

FallbackOneAtATime ==
  /\ (job.pc = "batch" /\ job'.pc = "fallback") =>
       (job'.i = 0 /\ job'.successCount = 0 /\ job'.failureCount = 0)
  /\ (job.pc = "fallback" /\ job' # job) =>
       /\ job'.i = job.i + 1
       /\ job'.successCount + job'.failureCount = job'.i
       /\ Cardinality(handled' \ handled) <= 1
       /\ \A h \in handled' \ handled : h.path = "single"
       /\ job'.pc \in {"fallback", "finishing", "failed"}
       /\ job'.pc = "failed" => job'.cause = "io"

C29_StoresFollowOutcome ==
  wk.pc = "replied" =>
    /\ wk.last.status \in 200..299 =>
         serviceStores(wk.reply) = {"successResponse", "successResponses"}
    /\ wk.last.status \in USER_ACTION_STATUS_CODES =>
         serviceStores(wk.reply) = {"userActionError", "userActionErrors"}
    /\ "userActionError" \in serviceStores(wk.reply) =>
         wk.last.status \in USER_ACTION_STATUS_CODES


\* C30: when a record has terminally failed in a pool worker with an error of
\* category SYSTEM_ERROR or NETWORK_ERROR, the error window read by
\* getApiErrorRate holds a timestamp of that failure
C30_TerminalFailureTracked ==
  (wk.pc = "replied" /\ wk.last.category \in {"SYSTEM_ERROR", "NETWORK_ERROR"}) =>
    \E ts \in wk.errorTimestamps : ts >= wk.startedAt


\* C31: at every instant the number of jobs whose handler is running on the
\* host is at most the current width
C31_ActiveJobsWithinWidth ==
  host.active + host.closing <= host.currentConcurrency

\* C40: after every tick callback the width of the running batch worker and
\* the worker module's currentConcurrency equal the controller's
\* currentConcurrency
C40_WidthFollowsController ==
  /\ host.currentConcurrency = cm.currentConcurrency
  /\ host.width = cm.currentConcurrency

\* the breaker has tripped and been reset, and a recovery step has just been
\* applied to the batch worker
C40_Witness ==
  /\ cbLastTripped # 0
  /\ ~cm.circuitBreakerTripped
  /\ decision = "recovery"
  /\ host.width > MIN_CONCURRENCY
  /\ workerUpdate = host.width


\* C32: after any sequence of tuning ticks maxConcurrent is between 1 and 20
\* and minTime between 50 ms and 500 ms
C32_SettingsInRange ==
  /\ 1 <= lim.maxConcurrent /\ lim.maxConcurrent <= 20
  /\ 50000 <= lim.minTime /\ lim.minTime <= 500000


\* C33: workersAvailable holds only indices of existing workers, holds no
\* index twice, and holds an index only if that worker has no task in flight
C33_AvailableWorkersValid ==
  LET wa == pool.workersAvailable
  IN /\ \A k \in 1..Len(wa) : wa[k] \in 1..Len(pool.workers)
     /\ \A k, l \in 1..Len(wa) : wa[k] = wa[l] => k = l
     /\ \A k \in 1..Len(wa) :
          wa[k] \in 1..Len(pool.workers) => pool.workers[wa[k]].tasks = {}


\* the tasks posted to a worker by this step
DispatchedTasks ==
  {j \in TaskIds :
     /\ \E i \in 1..Len(pool'.workers) : j \in pool'.workers[i].tasks
     /\ ~\E i \in 1..Len(pool.workers) : j \in pool.workers[i].tasks}

C34_DispatchStep ==
  \A j \in DispatchedTasks : promise'[j] = "pending"

\* C34: a task whose promise has already been settled is never posted to a
\* worker afterwards
C34_SettledNeverDispatched == [][C34_DispatchStep]_vars


\* C35: in one run of the handler a record that was submitted in a sub-batch
\* is not submitted again by the serial fallback
C35_SubmittedAtMostOnce ==
  sub.pc = "fallbackAwaiting" =>
    \A r \in sub.inflight : \A k \in 1..Len(sub.taken) : r \notin sub.taken[k]


\* C36: under fair ticks, in runs in which the bad samples stop, every trip is
\* eventually followed by a state in which the controller is neither tripped
\* nor in recovery mode
C36_TripIsLeft ==
  cm.circuitBreakerTripped ~> (~cm.circuitBreakerTripped /\ ~cm.inRecoveryMode)

\* a breaker that tripped has been reset and the recovery that followed is over
C36_Witness ==
  /\ cbLastTripped # 0
  /\ ~cm.circuitBreakerTripped
  /\ ~cm.inRecoveryMode
  /\ cm.recoveryStepsTaken > 0


\* C37: every record that fails terminally with status 429 or >= 500 adds
\* one to the counter of its url and status, so that the counter equals the
\* number of such failures
C37_FailureCounted ==
  (wk.pc = "replied" /\ wk.reply.type = "error"
     /\ (wk.last.status = 429 \/ wk.last.status >= 500)) =>
    recordErrorsIncrement(wk.reply) = 1


\* C38: every reqId in the index apirequests:<sessionId> has a populated
\* hash apidata:<sessionId>:<reqId>
C38_IndexedTraceExists == trace.apirequests \subseteq trace.apidata

\* one trace is indexed, and a failure between the two writes has left
\* another hash without index entry
C38_Witness ==
  /\ trace.apirequests # {}
  /\ trace.apidata \ trace.apirequests # {}
  /\ \A c \in TraceCalls : trace.call[c].pc = "idle"


\* C39: the outcomes stored for different records have different ids: for
\* each kind there are as many stored entries as ids pushed to the list
C39_DistinctIds ==
  \A kind \in StoredKinds :
    Cardinality({e \in store.keys : e.kind = kind}) = Len(store.list[kind])

====
